---------------------------- MODULE Spec2Model ----------------------------
(***************************************************************************)
(* A model of the route-planner engine (route_planner_mcp).                *)
(*                                                                         *)
(* Eleven specifications share this module.                                 *)
(*   Spec       the engine facade RoutePlannerEngine (server.py): its      *)
(*              state and the five operations nav_route, nav_risk_eval,    *)
(*              nav_pace_estimator, nav_select, nav_export, called in any  *)
(*              order by two callers that share the one ENGINE object.     *)
(*   SpecSelect the pure function select_route (selection.py) applied to   *)
(*              bounded inputs, once and again with one more route added.  *)
(*   SpecPipeline two callers that each run the pipeline of                *)
(*              cli.run_pipeline on the one shared ENGINE object.          *)
(*   SpecRisk   evaluate_routes (risk.py) applied to bounded step lists.   *)
(*   SpecRoads  road_network_route (pathfinding.py) applied to bounded     *)
(*              road networks and node iteration orders.                   *)
(*   SpecGrid   a_star_route (pathfinding.py) applied to bounded grids.    *)
(*   SpecSearch the loop of a_star_route, one iteration at a time.         *)
(*   SpecCandidates  nav_route with the candidates                         *)
(*              generate_route_candidates builds, request after request.   *)
(*   SpecSteps  assemble_route_steps (terrain.py) applied to the walks of  *)
(*              bounded length over bounded grounds.                       *)
(*   SpecBrief  export_brief (exporter.py) applied to bounded routes.      *)
(*   SpecTerrain  LocalTerrainTool (local_terrain.py): register and load   *)
(*              called in any order on the bundle directories.             *)
(*                                                                         *)
(* Numbers.  The code computes with floats that it rounds to a fixed       *)
(* number of decimals; the model keeps the rounded quantities as integers  *)
(* in the unit of their last decimal and computes the intermediate         *)
(* products exactly:                                                       *)
(*   estimated_cost, risk components, composite, coverage   1/1000         *)
(*   aggregate risk                                          1/100000      *)
(*   score                                                   1/100000000   *)
(*   distance_m, ascent_m, descent_m                         metres        *)
(*   slope                                                   degrees       *)
(*   travel_time_minutes, now, must_arrive_before            1/10 minute   *)
(*   coordinates, road distances                             metres        *)
(*   moves and g scores of the grid search                   decimetres    *)
(* An optional value (None in the code) is the empty sequence, a present   *)
(* one is the one-element sequence.  The route id "route-N" is the         *)
(* integer N (the formatting f"route-{N}" is injective).                   *)
(***************************************************************************)
EXTENDS Integers, Sequences, FiniteSets, TLC

VARIABLES
    routes,         \* state.routes: id -> RouteCandidate
    risks,          \* state.risks: id -> RouteRisk
    paces,          \* state.paces: id -> PaceEstimate
    selection,      \* state.selection: None or RouteSelectionResult
    route_counter,  \* RoutePlannerEngine._route_counter
    assigned,       \* history: the ids nav_route has assigned, in order
    generation,     \* history: the ids the latest successful nav_route assigned
    since,          \* history: what has been recorded since that nav_route
    last,           \* the last engine call and its outcome
    pc,             \* SpecPipeline: each caller's place in its pipeline
    mine,           \* SpecPipeline: the route ids each caller's nav_route returned
    sel_in,         \* SpecSelect: the arguments of select_route
    sel_out,        \* SpecSelect: None or what select_route returned/raised
    sel_base,       \* SpecSelect: None or the outcome before a route was added
    sel_added,      \* SpecSelect: None or the route that was added
    call,           \* the function specifications: None or the arguments of the call
    reply,          \* the function specifications: None or what the call returned
    data_root,      \* LocalTerrainTool: the bundle directories under the data root
    search          \* SpecSearch: None or the open set, came_from and g_score of a_star_route

engine_vars == <<routes, risks, paces, selection, route_counter, assigned,
                 generation, since, last>>
caller_vars == <<pc, mine>>
select_vars == <<sel_in, sel_out, sel_base, sel_added>>
call_vars == <<call, reply>>
vars == <<routes, risks, paces, selection, route_counter, assigned, generation,
          since, last, pc, mine, sel_in, sel_out, sel_base, sel_added, call, reply,
          data_root, search>>

----------------------------------------------------------------------------
(* Bounds of the model *)

MaxCounter == 3       \* nav_route is not called once the counter would pass it
MaxRoutes == 3        \* SpecSelect: the longest route list given to select_route
MaxSteps == 3         \* SpecRisk: the most steps of a route given to evaluate_routes
MaxFragments == 14    \* SpecRoads: the most two-node roads of a fragmented network
GridSize == 3         \* SpecGrid, SpecCandidates: the rows and the columns of the grid
MaxPathCells == 5     \* SpecSteps: the most cells of a path given to assemble_route_steps
MaxBriefSegments == 13  \* SpecBrief: the most segment steps of an exported route

----------------------------------------------------------------------------
(* Generic helpers *)

None == <<>>
Some(x) == <<x>>

Min(a, b) == IF a < b THEN a ELSE b
Max(a, b) == IF a > b THEN a ELSE b
Abs(a) == IF a < 0 THEN -a ELSE a

\* Python round(): the quotient n/d (d > 0) to the nearest integer, halves to
\* the even neighbour (\div rounds down and % is never negative).
RoundDiv(n, d) ==
    LET q == n \div d
        r == n % d
    IN  IF 2 * r < d THEN q
        ELSE IF 2 * r > d THEN q + 1
        ELSE IF q % 2 = 0 THEN q ELSE q + 1

RECURSIVE SumSeq(_)
SumSeq(s) == IF s = <<>> THEN 0 ELSE Head(s) + SumSeq(Tail(s))

RECURSIVE MaxSeq(_)
MaxSeq(s) == IF Len(s) = 1 THEN s[1] ELSE Max(Head(s), MaxSeq(Tail(s)))

Range(s) == {s[i] : i \in DOMAIN s}

----------------------------------------------------------------------------
(* Candidates as generate_route_candidates returns them, before the engine  *)
(* assigns ids.  Only the fields the modelled operations read are kept.     *)

Step(slope, exposure, terrain, step_type) ==
    [slope |-> slope, exposure |-> exposure, terrain |-> terrain,
     step_type |-> step_type]

Shape(steps, distance_m, ascent_m, descent_m, estimated_cost, coverage, prefer, avoid) ==
    [steps |-> steps, distance_m |-> distance_m, ascent_m |-> ascent_m,
     descent_m |-> descent_m, estimated_cost |-> estimated_cost,
     coverage |-> coverage,
     constraints_used |-> [prefer |-> prefer, avoid |-> avoid]]

\* Five candidates: two pairs that tie on the score, one steep and long
\* candidate with the best score, and one that is worse than all.
Catalogue ==
    << Shape(<<Step(0, 1000, "open", "segment")>>,
             700, 0, 0, 1000, <<<<"open", 700>>>>, <<"mixed">>, <<>>),
       Shape(<<Step(0, 0, "trail", "segment")>>,
             900, 0, 0, 1350, <<<<"trail", 200>>, <<"forest", 700>>>>, <<"trail">>, <<>>),
       Shape(<<Step(0, 0, "trail", "segment")>>,
             900, 0, 0, 1350, <<<<"trail", 500>>, <<"forest", 400>>>>, <<"trail">>, <<>>),
       Shape(<<Step(20, 500, "open", "segment"), Step(20, 500, "open", "checkpoint")>>,
             2000, 40, 0, 800, <<<<"open", 2000>>>>, <<"cover">>, <<"open">>),
       Shape(<<Step(5, 300, "wetland", "segment"), Step(5, 300, "forest", "segment")>>,
             1500, 10, 400, 2000, <<<<"wetland", 750>>, <<"forest", 750>>>>, <<>>, <<>>) >>

\* RouteCandidate: a shape with the id the engine gave it.  composite is
\* None until risk evaluation; provenance keeps sequence_id.
Candidate(shape, id, sequence_id) ==
    [id |-> id, steps |-> shape.steps, distance_m |-> shape.distance_m,
     ascent_m |-> shape.ascent_m, descent_m |-> shape.descent_m,
     estimated_cost |-> shape.estimated_cost, composite |-> None,
     coverage |-> shape.coverage, constraints_used |-> shape.constraints_used,
     provenance |-> [sequence_id |-> sequence_id]]

----------------------------------------------------------------------------
(* risk.py *)

RISK_WEIGHTS == [slope |-> 45, exposure |-> 35, hydrology |-> 20]  \* percent

SegmentSteps(steps) == SelectSeq(steps, LAMBDA st : st.step_type = "segment")

Slopes(steps) == [i \in DOMAIN steps |-> steps[i].slope]
Exposures(steps) == [i \in DOMAIN steps |-> steps[i].exposure]

\* 0.6 * clamp(avg / 15) + 0.4 * clamp(worst / 25), rounded to 3 decimals:
\* in thousandths 40 * min(sum, 15 n) / n + 16 * min(worst, 25).
slope_risk(steps) ==
    LET seg == SegmentSteps(steps)
        n == Len(seg)
    IN  IF n = 0 THEN 0
        ELSE Min(1000, RoundDiv(40 * Max(0, Min(SumSeq(Slopes(seg)), 15 * n))
                                + 16 * Max(0, Min(MaxSeq(Slopes(seg)), 25)) * n, n))

\* Seeded fault for exposure_risk: the mean exposure is not clamped
exposure_risk_unclamped(steps) ==
    LET seg == SegmentSteps(steps)
        n == Len(seg)
    IN  IF n = 0 THEN 0 ELSE RoundDiv(Max(0, SumSeq(Exposures(seg))), n)

exposure_risk(steps) ==
    LET seg == SegmentSteps(steps)
        n == Len(seg)
    IN  IF n = 0 THEN 0
        ELSE RoundDiv(Max(0, Min(SumSeq(Exposures(seg)), 1000 * n)), n)

hydrology_risk(steps) ==
    LET seg == SegmentSteps(steps)
        n == Len(seg)
        \* "water" in step.terrain.lower(), "wetland" in step.terrain.lower()
        water_penalty == Len(SelectSeq(seg, LAMBDA st : st.terrain = "water"))
        bog_penalty == Len(SelectSeq(seg, LAMBDA st : st.terrain = "wetland"))
    IN  IF n = 0 THEN 0
        ELSE RoundDiv(1000 * Min(water_penalty * 2 + bog_penalty, n), n)

RouteRisk(route) ==
    [route_id |-> route.id,
     slope_risk |-> slope_risk(route.steps),
     exposure_risk |-> exposure_risk(route.steps),
     hydrology_risk |-> hydrology_risk(route.steps)]

\* evaluate_routes: the risk map keyed by route.id, a later route of the
\* same id overwriting an earlier one (all RouteRisk of one route are equal).
evaluate_routes(rs) ==
    [rid \in {rs[i].id : i \in DOMAIN rs} |->
        RouteRisk(rs[CHOOSE i \in DOMAIN rs : rs[i].id = rid])]

\* RouteRisk.aggregate (data_models.py), in 1/100000
aggregate(risk) ==
    RISK_WEIGHTS.slope * risk.slope_risk
    + RISK_WEIGHTS.exposure * risk.exposure_risk
    + RISK_WEIGHTS.hydrology * risk.hydrology_risk

AggregateOne == 100000   \* the aggregate risk 1.0 in its unit

----------------------------------------------------------------------------
(* pace.py *)

NAISMITH_BASE_SPEED_KMH(mode) ==
    IF mode = "wheeled" THEN 8 ELSE 5    \* .get(mode, 5.0)

\* The adjusted speed in 1/2400 km/h (600, 800 and 40 divide 2400):
\* base - ascent/600 - max(0, (descent - 300)/800) - load/20*0.5 - maxslope/40,
\* at least 1.5 km/h.
naismith_adjusted_speed(route, mode, load_kg) ==
    Max(2400 * NAISMITH_BASE_SPEED_KMH(mode)
        - 4 * route.ascent_m
        - Max(0, 3 * (route.descent_m - 300))
        - 60 * load_kg
        - 60 * MaxSeq(Slopes(route.steps)),
        3600)

\* travel_time_minutes = distance_m / 1000 / speed * 60, rounded to 1 decimal;
\* base_speed_kmh is the adjusted speed rounded to 2 decimals.
estimate_travel_time(route, mode, load_kg) ==
    LET speed == naismith_adjusted_speed(route, mode, load_kg)
    IN  [route_id |-> route.id,
         travel_time_minutes |-> RoundDiv(route.distance_m * 1440, speed),
         mode |-> mode,
         load_kg |-> load_kg,
         base_speed_kmh |-> RoundDiv(speed, 24)]

----------------------------------------------------------------------------
(* selection.py *)

\* RouteSelectionConstraints (data_models.py)
Constraints(must_arrive_before, avoid_slope_degrees, prefer_low_risk, max_distance_m) ==
    [must_arrive_before |-> must_arrive_before,
     avoid_slope_degrees |-> avoid_slope_degrees,
     prefer_low_risk |-> prefer_low_risk,
     max_distance_m |-> max_distance_m]

\* The filter phase of the loop: the first filter that rejects the route,
\* "none" when it passes all three.  now is the clock reading
\* datetime.now(timezone.utc) of the call.
Rejection(route, pace, c, now) ==
    IF c.avoid_slope_degrees # None
       /\ MaxSeq(Slopes(route.steps)) > c.avoid_slope_degrees[1]
    THEN "slope above threshold"
    ELSE IF c.max_distance_m # None /\ route.distance_m > c.max_distance_m[1]
    THEN "distance exceeds limit"
    ELSE IF c.must_arrive_before # None
            /\ now + pace.travel_time_minutes > c.must_arrive_before[1]
    THEN "ETA past deadline"
    ELSE "none"

\* Seeded fault for IsRejected: only the slope filter skips the route, the distance
\* and deadline branches fall through to the scoring
IsRejectedSlopeOnly(route, pace, c, now) ==
    /\ c.avoid_slope_degrees # None
    /\ MaxSeq(Slopes(route.steps)) > c.avoid_slope_degrees[1]

\* Whether the loop skips the route (the three `continue` statements)
IsRejected(route, pace, c, now) == Rejection(route, pace, c, now) # "none"

\* score = estimated_cost, times (1 + aggregate) when prefer_low_risk
Score(route, risk, c) ==
    IF c.prefer_low_risk
    THEN route.estimated_cost * (AggregateOne + aggregate(risk))
    ELSE route.estimated_cost * AggregateOne

\* Seeded fault for ScoreImproves: the comparison the wrong way round
ScoreImprovesReversed(score, best_score) ==
    best_score = None \/ score > best_score[1]

\* score < best_score, best_score starting at float("inf") (None here)
ScoreImproves(score, best_score) ==
    best_score = None \/ score < best_score[1]

\* The loop over the routes: best_choice, best_score, the
\* rejection notes and the evaluations of the routes that pass the filters.
RECURSIVE select_loop(_, _, _, _, _, _, _)
select_loop(rs, rm, pm, c, now, i, acc) ==
    IF i > Len(rs) THEN acc
    ELSE
      LET route == rs[i]
          rej == Rejection(route, pm[route.id], c, now)
          score == Score(route, rm[route.id], c)
          better == ScoreImproves(score, acc.best_score)
      IN  IF IsRejected(route, pm[route.id], c, now)
          THEN select_loop(rs, rm, pm, c, now, i + 1,
                 [acc EXCEPT !.rationale_parts = Append(@, <<route.id, rej>>)])
          ELSE select_loop(rs, rm, pm, c, now, i + 1,
                 [best_choice |-> IF better THEN Some(route) ELSE acc.best_choice,
                  best_score |-> IF better THEN Some(score) ELSE acc.best_score,
                  rationale_parts |-> acc.rationale_parts,
                  evaluations |-> Append(acc.evaluations,
                      [route |-> route, score |-> score,
                       risk |-> rm[route.id], pace |-> pm[route.id]])])

\* max(route.coverage.items(), key=value)[0]: the first entry of largest value
Dominant(coverage) ==
    LET top == MaxSeq([i \in DOMAIN coverage |-> coverage[i][2]])
        first == CHOOSE i \in DOMAIN coverage :
                    /\ coverage[i][2] = top
                    /\ \A j \in 1..(i - 1) : coverage[j][2] # top
    IN  coverage[first][1]

\* route.coverage.get(name, 0.0)
CoverageGet(coverage, name) ==
    IF \E i \in DOMAIN coverage : coverage[i][1] = name
    THEN coverage[CHOOSE i \in DOMAIN coverage : coverage[i][1] = name][2]
    ELSE 0

\* reason_codes of one alternate against the selected route
ReasonCodes(ev, best, best_risk, best_pace) ==
    LET route == ev.route
        risk_diff == aggregate(ev.risk) - aggregate(best_risk)
    IN  (IF Abs(risk_diff) < 1000 THEN {"tie_risk"}          \* abs(diff) < 0.01
         ELSE IF risk_diff > 0 THEN {"higher_risk"} ELSE {"lower_risk"})
        \cup (IF ev.pace.travel_time_minutes > best_pace.travel_time_minutes
              THEN {"slower_eta"}
              ELSE IF ev.pace.travel_time_minutes < best_pace.travel_time_minutes
              THEN {"faster_eta"} ELSE {})
        \cup (IF route.distance_m > best.distance_m THEN {"longer_distance"}
              ELSE IF route.distance_m < best.distance_m THEN {"shorter_distance"}
              ELSE {})
        \cup {IF pref = "trail" THEN "trail_pref"
              ELSE IF pref = "mixed" THEN "mixed_profile" ELSE "cover_pref" :
                pref \in Range(route.constraints_used.prefer)
                         \cap {"trail", "mixed", "cover"}}
        \cup (IF route.coverage # <<>>
              THEN {"dominant_" \o Dominant(route.coverage)} ELSE {})
        \cup (IF /\ route.constraints_used.avoid # <<>>
                 /\ route.coverage # <<>>
                 /\ "open" \in Range(route.constraints_used.avoid)
                 /\ CoverageGet(route.coverage, "open") > 0
              THEN {"requires_open_crossing"} ELSE {})
        \cup (IF route.estimated_cost > best.estimated_cost THEN {"higher_cost"}
              ELSE IF route.estimated_cost < best.estimated_cost THEN {"lower_cost"}
              ELSE {})

\* list.sort(key=score): a stable sort by ascending score
RECURSIVE InsertByScore(_, _)
InsertByScore(sorted, item) ==
    IF sorted = <<>> THEN <<item>>
    ELSE IF item.score < Head(sorted).score THEN <<item>> \o sorted
    ELSE <<Head(sorted)>> \o InsertByScore(Tail(sorted), item)

RECURSIVE SortByScore(_)
SortByScore(items) ==
    IF items = <<>> THEN <<>>
    ELSE InsertByScore(SortByScore(SubSeq(items, 1, Len(items) - 1)),
                       items[Len(items)])

\* The alternates: one entry per evaluation whose route is not the selected
\* one, its score rounded to 3 decimals, sorted by that score.
Alternates(evaluations, best, best_risk, best_pace) ==
    LET others == SelectSeq(evaluations, LAMBDA ev : ev.route.id # best.id)
    IN  SortByScore([i \in DOMAIN others |->
            [route_id |-> others[i].route.id,
             score |-> RoundDiv(others[i].score, AggregateOne),
             reason_codes |-> ReasonCodes(others[i], best, best_risk, best_pace)]])

\* select_route: the RouteSelectionResult, or the ValueError it raises.
select_route(rs, rm, pm, c, now) ==
    LET acc == select_loop(rs, rm, pm, c, now, 1,
                   [best_choice |-> None, best_score |-> None,
                    rationale_parts |-> <<>>, evaluations |-> <<>>])
    IN  IF acc.best_choice = None
        THEN [ok |-> FALSE,
              error |-> "No route satisfies the provided constraints."]
        ELSE
          LET best == acc.best_choice[1]
          IN  [ok |-> TRUE,
               selected_route |-> best,
               risk |-> rm[best.id],
               pace |-> pm[best.id],
               rationale |-> Append(acc.rationale_parts, <<best.id, "selected">>),
               constraints |-> c,
               alternates |-> Alternates(acc.evaluations, best, rm[best.id], pm[best.id]),
               policy |-> [tiebreakers |-> <<"lowest composite",
                                             "lowest estimated_cost",
                                             "greater trail_km">>]]

----------------------------------------------------------------------------
(* server.py: RoutePlannerEngine *)

\* The route_ids argument: absent or empty (both falsy), or an explicit list
IdLists ==
    {<<>>} \cup {<<i>> : i \in 1..MaxCounter}
           \cup {<<i, i + 1>> : i \in 1..(MaxCounter - 1)}
           \cup {<<i + 1, i>> : i \in 1..(MaxCounter - 1)}

\* What generate_route_candidates may return: a list of candidates, possibly
\* empty, taken from the catalogue.  The lists here have up to two candidates
\* (max_candidates defaults to 3 in the code); the id loop of nav_route
\* treats every candidate alike.
CandidateLists ==
    {<<>>} \cup {<<Catalogue[a]>> : a \in {1, 4}}
           \cup {<<Catalogue[a], Catalogue[b]>> : a, b \in {1, 4}}

\* The constraints and clock readings nav_select is called with
SelectParams ==
    { <<Constraints(None, None, TRUE, None), 0>>,
      <<Constraints(None, Some(10), TRUE, None), 0>>,
      <<Constraints(Some(200), None, FALSE, None), 0>>,
      <<Constraints(None, None, TRUE, Some(500)), 0>> }

PaceParams == { <<"foot", 25>>, <<"wheeled", 0>> }

\* list(d.keys()): the keys in insertion order, which is ascending id order
RECURSIVE Keys(_)
Keys(d) ==
    IF DOMAIN d = {} THEN <<>>
    ELSE LET m == CHOOSE x \in DOMAIN d : \A y \in DOMAIN d : x <= y
         IN  <<m>> \o Keys([k \in DOMAIN d \ {m} |-> d[k]])

\* [rid for rid in route_ids if rid not in d]
Missing(route_ids, d) == SelectSeq(route_ids, LAMBDA rid : rid \notin DOMAIN d)

\* dict.update / item assignment
Update(d, e) ==
    [k \in DOMAIN d \cup DOMAIN e |-> IF k \in DOMAIN e THEN e[k] ELSE d[k]]

\* What the caller gets back: the payload ("ok"; for nav_export with the id
\* of the exported route) or the ValueError raised
Outcome(op, status, exported) ==
    [op |-> op, status |-> status, exported |-> exported]

\* Seeded faults for the clear() statements: the statement left out
KeptRoutes(d) == d
KeptRisks(d) == d
KeptSelection(sel) == sel

\* nav_route, lines 136-139: what the four clear() statements leave
ClearedRoutes(d) == <<>>
ClearedRisks(d) == <<>>
ClearedPaces(d) == <<>>
ClearedSelection(sel) == None

\* Seeded fault for CounterAtEntry: the counter restarts with every generation
CounterReset(c) == 0

\* nav_route, line 141: the counter the id loop starts from
CounterAtEntry(c) == c

\* nav_route, lines 140-144: the loop that numbers and stores the candidates
RECURSIVE StoreCandidates(_, _, _, _, _)
StoreCandidates(cands, i, c, d, ids) ==
    IF i > Len(cands) THEN [routes |-> d, counter |-> c, ids |-> ids]
    ELSE LET id == c + 1
         IN  StoreCandidates(cands, i + 1, id,
                 Update(d, (id :> Candidate(cands[i], id, id))),
                 Append(ids, id))

\* The history `since` after a successful nav_route: nothing recorded yet
NothingSince == [risk |-> {}, pace |-> {}, select |-> FALSE]

\* Seeded fault for nav_route: the state is cleared before the candidates
\* are looked at
nav_route_clearing_first(cands) ==
    /\ route_counter + Len(cands) <= MaxCounter
    /\ IF cands = <<>>
       THEN /\ last' = Outcome("nav_route", "no_viable_route", None)
            /\ routes' = <<>>
            /\ risks' = <<>>
            /\ paces' = <<>>
            /\ selection' = None
            /\ UNCHANGED <<route_counter, assigned, generation, since>>
       ELSE LET stored == StoreCandidates(cands, 1, CounterAtEntry(route_counter),
                                          ClearedRoutes(routes), <<>>)
            IN  /\ routes' = stored.routes
                /\ risks' = ClearedRisks(risks)
                /\ paces' = ClearedPaces(paces)
                /\ selection' = ClearedSelection(selection)
                /\ route_counter' = stored.counter
                /\ assigned' = assigned \o stored.ids
                /\ generation' = Range(stored.ids)
                /\ since' = NothingSince
                /\ last' = Outcome("nav_route", "ok", None)

\* nav_route, server.py lines 134-144, on the candidates generated
nav_route(cands) ==
    /\ route_counter + Len(cands) <= MaxCounter
    /\ IF cands = <<>>
       THEN /\ last' = Outcome("nav_route", "no_viable_route", None)
            /\ UNCHANGED <<routes, risks, paces, selection, route_counter, assigned,
                           generation, since>>
       ELSE LET stored == StoreCandidates(cands, 1, CounterAtEntry(route_counter),
                                          ClearedRoutes(routes), <<>>)
            IN  /\ routes' = stored.routes
                /\ risks' = ClearedRisks(risks)
                /\ paces' = ClearedPaces(paces)
                /\ selection' = ClearedSelection(selection)
                /\ route_counter' = stored.counter
                /\ assigned' = assigned \o stored.ids
                /\ generation' = Range(stored.ids)
                /\ since' = NothingSince
                /\ last' = Outcome("nav_route", "ok", None)

\* Seeded fault for Composite: the risk factor is left out
CompositeCostOnly(route, risk) == Some(route.estimated_cost)

\* nav_risk_eval, line 178
Composite(route, risk) ==
    Some(RoundDiv(route.estimated_cost * (AggregateOne + aggregate(risk)), AggregateOne))

nav_risk_eval(route_ids) ==
    /\ IF route_ids # <<>> /\ Missing(route_ids, routes) # <<>>
       THEN /\ last' = Outcome("nav_risk_eval", "unknown_id", None)
            /\ UNCHANGED <<routes, risks, since>>
       ELSE LET ids == IF route_ids # <<>> THEN route_ids ELSE Keys(routes)
                new == evaluate_routes([i \in DOMAIN ids |-> routes[ids[i]]])
            IN  /\ risks' = Update(risks, new)
                /\ routes' = [id \in DOMAIN routes |->
                                IF id \in DOMAIN new
                                THEN [routes[id] EXCEPT !.composite = Composite(routes[id], new[id])]
                                ELSE routes[id]]
                /\ since' = [since EXCEPT !.risk = @ \cup DOMAIN new]
                /\ last' = Outcome("nav_risk_eval", "ok", None)
    /\ UNCHANGED <<paces, selection, route_counter, assigned, generation>>

\* nav_pace_estimator, lines 192-198: each pace is stored as soon as it is
\* computed; the first unknown id raises and ends the loop.
RECURSIVE pace_loop(_, _, _, _, _)
pace_loop(ids, i, mode, load_kg, acc) ==
    IF i > Len(ids) THEN [paces |-> acc, status |-> "ok", done |-> i - 1]
    ELSE IF ids[i] \notin DOMAIN routes
    THEN [paces |-> acc, status |-> "unknown_id", done |-> i - 1]
    ELSE pace_loop(ids, i + 1, mode, load_kg,
             Update(acc, (ids[i] :> estimate_travel_time(routes[ids[i]], mode, load_kg))))

nav_pace_estimator(mode, load_kg, route_ids) ==
    LET ids == IF route_ids # <<>> THEN route_ids ELSE Keys(routes)
        loop == pace_loop(ids, 1, mode, load_kg, paces)
    IN  /\ paces' = loop.paces
        /\ since' = [since EXCEPT !.pace = @ \cup {ids[j] : j \in 1..loop.done}]
        /\ last' = Outcome("nav_pace_estimator", loop.status, None)
        /\ UNCHANGED <<routes, risks, selection, route_counter, assigned, generation>>

\* nav_select.  state.selection keeps the selected RouteCandidate object
\* itself; the model keeps its id, the key under which state.routes holds
\* that object.
nav_select(route_ids, c, now) ==
    LET ids == IF route_ids # <<>> THEN route_ids ELSE Keys(routes)
        status ==
            IF Missing(ids, routes) # <<>> THEN "unknown_id"
            ELSE IF Missing(ids, risks) # <<>> THEN "missing_risk"
            ELSE IF Missing(ids, paces) # <<>> THEN "missing_pace"
            ELSE "select"
    IN  /\ IF status # "select"
           THEN /\ last' = Outcome("nav_select", status, None)
                /\ UNCHANGED <<selection, since>>
           ELSE LET result == select_route([i \in DOMAIN ids |-> routes[ids[i]]],
                                           [rid \in Range(ids) |-> risks[rid]],
                                           [rid \in Range(ids) |-> paces[rid]],
                                           c, now)
                IN  IF result.ok
                    THEN /\ selection' =
                               Some([selected_route |-> result.selected_route.id,
                                     risk |-> result.risk,
                                     pace |-> result.pace,
                                     rationale |-> result.rationale,
                                     alternates |-> result.alternates])
                         /\ since' = [since EXCEPT !.select = TRUE]
                         /\ last' = Outcome("nav_select", "ok", None)
                    ELSE /\ UNCHANGED <<selection, since>>
                         /\ last' = Outcome("nav_select", "no_route", None)
        /\ UNCHANGED <<routes, risks, paces, route_counter, assigned, generation>>

\* nav_export: the payload is that of the selected route; `exported` is the
\* id of the route the export files were written for.
nav_export ==
    /\ IF selection = None
       THEN last' = Outcome("nav_export", "no_selection", None)
       ELSE last' = Outcome("nav_export", "ok", Some(selection[1].selected_route))
    /\ UNCHANGED <<routes, risks, paces, selection, route_counter, assigned,
                   generation, since>>

\* RoutePlannerEngine.__init__, and no call made yet
EngineInit ==
    /\ routes = <<>>
    /\ risks = <<>>
    /\ paces = <<>>
    /\ selection = None
    /\ route_counter = 0
    /\ assigned = <<>>
    /\ generation = {}
    /\ since = NothingSince
    /\ last = Outcome("init", "ok", None)

SelectIdle ==
    /\ sel_in = None
    /\ sel_out = None
    /\ sel_base = None
    /\ sel_added = None

Callers == {"A", "B"}        \* two clients of the one shared ENGINE

CallersIdle ==
    /\ pc = [caller \in Callers |-> "route"]
    /\ mine = [caller \in Callers |-> <<>>]

\* No directory under the data root, and no search under way
ToolsIdle == data_root = <<>> /\ search = None

\* No call of the functions the other specifications apply
CallIdle ==
    /\ call = None
    /\ reply = None

Init == EngineInit /\ CallersIdle /\ ToolsIdle /\ SelectIdle /\ CallIdle

\* The tools of the MCP server: any operation, with any arguments, at any time
Next ==
    \/ /\ \E cands \in CandidateLists : nav_route(cands)
       /\ UNCHANGED <<caller_vars, select_vars, data_root, search, call_vars>>
    \/ /\ \E route_ids \in IdLists : nav_risk_eval(route_ids)
       /\ UNCHANGED <<caller_vars, select_vars, data_root, search, call_vars>>
    \/ /\ \E p \in PaceParams, route_ids \in IdLists :
              nav_pace_estimator(p[1], p[2], route_ids)
       /\ UNCHANGED <<caller_vars, select_vars, data_root, search, call_vars>>
    \/ /\ \E p \in SelectParams, route_ids \in IdLists :
              nav_select(route_ids, p[1], p[2])
       /\ UNCHANGED <<caller_vars, select_vars, data_root, search, call_vars>>
    \/ /\ nav_export
       /\ UNCHANGED <<caller_vars, select_vars, data_root, search, call_vars>>

Spec == Init /\ [][Next]_vars

----------------------------------------------------------------------------
(* SpecPipeline: two callers, each running the pipeline of cli.run_pipeline  *)
(* (route, risk, pace, select, export, with the route ids its own nav_route  *)
(* returned) on the one shared engine; the engine calls are whole steps.     *)

\* The stage after a call: the next one, or the end when the call raised
After(stage) == IF last'.status = "ok" THEN stage ELSE "done"

CallRoute(caller) ==
    /\ pc[caller] = "route"
    /\ \E cands \in CandidateLists : nav_route(cands)
    /\ pc' = [pc EXCEPT ![caller] = After("risk")]
    /\ mine' = [mine EXCEPT ![caller] =
                   IF last'.status = "ok" THEN Keys(routes') ELSE <<>>]
    /\ UNCHANGED <<select_vars, call_vars, data_root, search>>

CallRisk(caller) ==
    /\ pc[caller] = "risk"
    /\ nav_risk_eval(mine[caller])
    /\ pc' = [pc EXCEPT ![caller] = After("pace")]
    /\ UNCHANGED <<mine, select_vars, call_vars, data_root, search>>

CallPace(caller) ==
    /\ pc[caller] = "pace"
    /\ \E p \in PaceParams : nav_pace_estimator(p[1], p[2], mine[caller])
    /\ pc' = [pc EXCEPT ![caller] = After("select")]
    /\ UNCHANGED <<mine, select_vars, call_vars, data_root, search>>

CallSelect(caller) ==
    /\ pc[caller] = "select"
    /\ \E p \in SelectParams : nav_select(mine[caller], p[1], p[2])
    /\ pc' = [pc EXCEPT ![caller] = After("export")]
    /\ UNCHANGED <<mine, select_vars, call_vars, data_root, search>>

CallExport(caller) ==
    /\ pc[caller] = "export"
    /\ nav_export
    /\ pc' = [pc EXCEPT ![caller] = IF last'.status = "ok" THEN "exported" ELSE "done"]
    /\ UNCHANGED <<mine, select_vars, call_vars, data_root, search>>

\* The caller's next request
Again(caller) ==
    /\ pc[caller] \in {"done", "exported"}
    /\ pc' = [pc EXCEPT ![caller] = "route"]
    /\ UNCHANGED <<mine, engine_vars, select_vars, call_vars, data_root, search>>

PipelineNext ==
    \/ \E caller \in Callers : CallRoute(caller)
    \/ \E caller \in Callers : CallRisk(caller)
    \/ \E caller \in Callers : CallPace(caller)
    \/ \E caller \in Callers : CallSelect(caller)
    \/ \E caller \in Callers : CallExport(caller)
    \/ \E caller \in Callers : Again(caller)

SpecPipeline == Init /\ [][PipelineNext]_vars

----------------------------------------------------------------------------
(* SpecSelect: select_route on bounded inputs *)

\* The candidate of catalogue place k as nav_select hands it to select_route:
\* numbered, and with the composite nav_risk_eval has set
Evaluated(k) ==
    LET route == Candidate(Catalogue[k], k, k)
    IN  [route EXCEPT !.composite = Composite(route, RouteRisk(route))]

\* Lists of distinct catalogue places, at most MaxRoutes long
RouteLists ==
    {ks \in UNION {[1..n -> DOMAIN Catalogue] : n \in 0..MaxRoutes} :
        \A i, j \in DOMAIN ks : i # j => ks[i] # ks[j]}

ConstraintSets ==
    {Constraints(d, sl, pr, md) :
        d \in {None, Some(200)}, sl \in {None, Some(10)},
        pr \in BOOLEAN, md \in {None, Some(1000)}}

\* The arguments nav_select builds: the routes, their risks and their paces
SelectArgs(ks, mode, c, now) ==
    LET rs == [i \in DOMAIN ks |-> Evaluated(ks[i])]
    IN  [routes |-> rs,
         risks |-> evaluate_routes(rs),
         paces |-> [rid \in Range(ks) |-> estimate_travel_time(Evaluated(rid), mode, 25)],
         constraints |-> c,
         now |-> now]

Apply(args) ==
    select_route(args.routes, args.risks, args.paces, args.constraints, args.now)

SelectInit ==
    /\ EngineInit
    /\ CallersIdle /\ ToolsIdle
    /\ \E ks \in RouteLists, mode \in {"foot", "wheeled"},
          c \in ConstraintSets, now \in {0, 100} :
           sel_in = [ks |-> ks, mode |-> mode, c |-> c, now |-> now]
    /\ sel_out = None
    /\ sel_base = None
    /\ sel_added = None
    /\ CallIdle

\* One call of select_route
Select ==
    /\ sel_out = None
    /\ sel_out' = Some(Apply(SelectArgs(sel_in.ks, sel_in.mode, sel_in.c, sel_in.now)))
    /\ UNCHANGED <<sel_in, sel_base, sel_added>>
    /\ UNCHANGED <<engine_vars, caller_vars, call_vars, data_root, search>>

\* A second call, with one more route put at place p of the list
SelectWithOneMore ==
    /\ sel_out # None
    /\ sel_base = None
    /\ Len(sel_in.ks) < MaxRoutes
    /\ \E k \in DOMAIN Catalogue \ Range(sel_in.ks), p \in 1..(Len(sel_in.ks) + 1) :
          LET ks == SubSeq(sel_in.ks, 1, p - 1) \o <<k>>
                    \o SubSeq(sel_in.ks, p, Len(sel_in.ks))
          IN  /\ sel_in' = [sel_in EXCEPT !.ks = ks]
              /\ sel_added' = Some(k)
              /\ sel_out' = Some(Apply(SelectArgs(ks, sel_in.mode, sel_in.c, sel_in.now)))
    /\ sel_base' = sel_out
    /\ UNCHANGED <<engine_vars, caller_vars, call_vars, data_root, search>>

SelectNext == Select \/ SelectWithOneMore

SpecSelect == SelectInit /\ [][SelectNext]_vars

----------------------------------------------------------------------------
(* Claims about select_route, checked under SpecSelect *)

\* The arguments of the call whose outcome sel_out holds
CurrentArgs == SelectArgs(sel_in.ks, sel_in.mode, sel_in.c, sel_in.now)

Returned == sel_out # None /\ sel_out[1].ok

\* The three filters as the claims state them
ObeysFilters(route, a) ==
    LET c == a.constraints
    IN  /\ c.avoid_slope_degrees # None =>
               \A i \in DOMAIN route.steps : route.steps[i].slope <= c.avoid_slope_degrees[1]
        /\ c.max_distance_m # None => route.distance_m <= c.max_distance_m[1]
        /\ c.must_arrive_before # None =>
               a.now + a.paces[route.id].travel_time_minutes <= c.must_arrive_before[1]

\* The score as the claims state it, in 1/100000000
StatedScore(route, a) ==
    IF a.constraints.prefer_low_risk
    THEN route.estimated_cost * (AggregateOne + aggregate(a.risks[route.id]))
    ELSE route.estimated_cost * AggregateOne

TrailKm(route) == CoverageGet(route.coverage, "trail")

\* C6: whenever select_route returns, the chosen route is one of the input
\* routes, passes the slope, distance and deadline filters, and its score is
\* at most the score of every input route that passes the filters.
C6_ChosenObeysFiltersAndMinimizes ==
    Returned =>
        LET a == CurrentArgs
            r == sel_out[1].selected_route
        IN  /\ \E i \in DOMAIN a.routes : a.routes[i] = r
            /\ ObeysFilters(r, a)
            /\ \A i \in DOMAIN a.routes :
                  ObeysFilters(a.routes[i], a) => StatedScore(r, a) <= StatedScore(a.routes[i], a)

\* A call with a deadline and a slope limit that returns a route which is not
\* the first of the list, another route passing with a larger score and a
\* third being rejected
C6_Witness ==
    /\ Returned
    /\ sel_base = None
    /\ sel_in.c.must_arrive_before # None
    /\ sel_in.c.avoid_slope_degrees # None
    /\ sel_in.c.prefer_low_risk
    /\ LET a == CurrentArgs
           r == sel_out[1].selected_route
       IN  /\ a.routes[1] # r
           /\ \E i \in DOMAIN a.routes : ~ObeysFilters(a.routes[i], a)
           /\ \E i \in DOMAIN a.routes :
                 /\ ObeysFilters(a.routes[i], a)
                 /\ StatedScore(a.routes[i], a) > StatedScore(r, a)

\* C7: among the routes that pass the filters and share the minimum score,
\* the chosen one has the lowest estimated_cost and, among those of equal
\* estimated_cost, the largest trail coverage, whatever the input order.
C7_TiesByCostThenTrail ==
    Returned =>
        LET a == CurrentArgs
            r == sel_out[1].selected_route
        IN  \A i \in DOMAIN a.routes :
               (/\ ObeysFilters(a.routes[i], a)
                /\ StatedScore(a.routes[i], a) = StatedScore(r, a))
               => \/ r.estimated_cost < a.routes[i].estimated_cost
                  \/ /\ r.estimated_cost = a.routes[i].estimated_cost
                     /\ TrailKm(r) >= TrailKm(a.routes[i])

\* C8: when select_route chose R and one more route is added, anywhere in the
\* list, that fails a filter or scores strictly more than R, the new call
\* returns and still chooses R.
C8_WorseRouteKeepsSelection ==
    (sel_base # None /\ sel_base[1].ok) =>
        LET a == CurrentArgs
            x == Evaluated(sel_added[1])
            r == sel_base[1].selected_route
        IN  (~ObeysFilters(x, a) \/ StatedScore(x, a) > StatedScore(r, a))
            => /\ sel_out[1].ok
               /\ sel_out[1].selected_route = r

\* A route that passes the filters, with a strictly larger score, was put in
\* front of two others and the choice stayed
C8_Witness ==
    /\ sel_base # None
    /\ sel_base[1].ok
    /\ Len(sel_in.ks) = 3
    /\ sel_in.ks[1] = sel_added[1]
    /\ LET a == CurrentArgs
           x == Evaluated(sel_added[1])
       IN  /\ ObeysFilters(x, a)
           /\ StatedScore(x, a) > StatedScore(sel_base[1].selected_route, a)
           /\ sel_out[1].selected_route = sel_base[1].selected_route

\* C9: when select_route returns, every input route a filter rejected is an
\* entry of the returned alternates, with reason codes.
C9_RejectedRoutesAreAlternates ==
    Returned =>
        LET a == CurrentArgs
            alts == sel_out[1].alternates
        IN  \A i \in DOMAIN a.routes :
               ~ObeysFilters(a.routes[i], a)
               => \E j \in DOMAIN alts :
                     /\ alts[j].route_id = a.routes[i].id
                     /\ alts[j].reason_codes # {}

----------------------------------------------------------------------------
(* Claims about the engine, checked under Spec and SpecPipeline *)

\* The ids a call references: the explicit list, or every stored route
Referenced(route_ids) == IF route_ids # <<>> THEN route_ids ELSE Keys(routes)

\* The step is a call of the operation, and `last` its outcome
Returns(op) == last'.op = op

\* The ids of generations that a later successful nav_route superseded
Superseded == Range(assigned) \ generation

\* C1: after any sequence of engine operations, failed ones included, every
\* key of state.risks and every key of state.paces is a key of state.routes.
C1_RisksAndPacesKeyedByRoutes ==
    /\ DOMAIN risks \subseteq DOMAIN routes
    /\ DOMAIN paces \subseteq DOMAIN routes

\* A later generation, with risks and paces recorded for it, after a call
\* that raised
C1_Witness ==
    /\ Superseded # {}
    /\ risks # <<>>
    /\ paces # <<>>
    /\ DOMAIN paces # DOMAIN routes
    /\ last.status = "unknown_id"

\* C2: no route id is assigned twice; a successful nav_route storing k
\* candidates at counter c gives them the ids c+1 .. c+k in candidate order
\* and leaves the counter at c+k; the counter never decreases; every stored
\* candidate's sequence_id is its id and its key in state.routes.
C2_IdsIssuedOnce ==
    [][ /\ route_counter' >= route_counter
        /\ \A i, j \in DOMAIN assigned' : assigned'[i] = assigned'[j] => i = j
        /\ \A k \in DOMAIN routes' :
              routes'[k].id = k /\ routes'[k].provenance.sequence_id = k
        /\ \A cands \in CandidateLists :
              (Returns("nav_route") /\ cands # <<>> /\ nav_route(cands)) =>
                 /\ route_counter' = route_counter + Len(cands)
                 /\ DOMAIN routes' = (route_counter + 1)..(route_counter + Len(cands))
                 /\ \A i \in DOMAIN cands :
                       routes'[route_counter + i] =
                          Candidate(cands[i], route_counter + i, route_counter + i)
      ]_vars

\* The second successful nav_route stored two candidates when the counter
\* stood at 1
C2_Witness ==
    /\ last.op = "nav_route"
    /\ last.status = "ok"
    /\ assigned = <<1, 2, 3>>
    /\ generation = {2, 3}
    /\ route_counter = 3

\* C3: nav_risk_eval, nav_pace_estimator and nav_select called with an
\* explicit id list holding an id that is not a key of state.routes raise the
\* unknown-id error; every id of a superseded generation is such an id.
C3_UnknownIdsRejected ==
    [][ \A route_ids \in IdLists :
           (\E i \in DOMAIN route_ids :
               route_ids[i] \notin DOMAIN routes \/ route_ids[i] \in Superseded)
           => \/ last'.status = "unknown_id"
              \/ /\ Returns("nav_risk_eval") => ~nav_risk_eval(route_ids)
                 /\ Returns("nav_pace_estimator") =>
                       \A p \in PaceParams : ~nav_pace_estimator(p[1], p[2], route_ids)
                 /\ Returns("nav_select") =>
                       \A p \in SelectParams : ~nav_select(route_ids, p[1], p[2])
      ]_vars

\* A call raised the unknown-id error while routes of a later generation,
\* with their risks and paces, were stored
C3_Witness ==
    /\ last.op = "nav_select"
    /\ last.status = "unknown_id"
    /\ Superseded # {}
    /\ DOMAIN risks = DOMAIN routes
    /\ DOMAIN paces = DOMAIN routes
    /\ routes # <<>>

\* C4: nav_select returns only if, since the latest successful nav_route,
\* nav_risk_eval and nav_pace_estimator recorded every id it references, and
\* raises the missing-risk or missing-pace error otherwise; nav_export returns
\* only if a nav_select returned since the latest successful nav_route, and
\* raises 'run select first' otherwise.
C4_PrerequisitesInOrder ==
    [][ /\ \A route_ids \in IdLists :
              LET ids == Range(Referenced(route_ids))
              IN  \/ /\ last'.status = "ok" =>
                            ids \subseteq (since.risk \cap since.pace)
                     /\ (ids \subseteq DOMAIN routes /\ ~(ids \subseteq since.risk))
                            => last'.status = "missing_risk"
                     /\ (/\ ids \subseteq DOMAIN routes
                         /\ ids \subseteq since.risk
                         /\ ~(ids \subseteq since.pace))
                            => last'.status = "missing_pace"
                  \/ ~Returns("nav_select")
                  \/ \A p \in SelectParams : ~nav_select(route_ids, p[1], p[2])
        /\ \/ /\ last'.status = "ok" => since.select
              /\ ~since.select => last'.status = "no_selection"
           \/ ~nav_export
      ]_vars

\* nav_export raised after a nav_route that followed a complete run, and
\* before it a nav_select had raised the missing-pace error
C4_Witness ==
    /\ last.op = "nav_export"
    /\ last.status = "no_selection"
    /\ Superseded # {}
    /\ since.risk # {}
    /\ since.pace # since.risk
    /\ ~since.select

\* C5: with two callers interleaving whole operations on one engine,
\* state.selection is absent or its route's id is a key of state.routes, and
\* a route nav_export emits belongs to the current generation.
C5_SelectionIsCurrent ==
    /\ selection = None \/ selection[1].selected_route \in DOMAIN routes
    /\ (last.op = "nav_export" /\ last.status = "ok") =>
          /\ last.exported[1] \in DOMAIN routes
          /\ last.exported[1] \notin Superseded

\* One caller's export returned while the routes the other caller generated
\* were already superseded
C5_Witness ==
    /\ last.op = "nav_export"
    /\ last.status = "ok"
    /\ \E a, b \in Callers :
          /\ a # b
          /\ pc[a] = "exported"
          /\ mine[b] # <<>>
          /\ Range(mine[b]) \subseteq Superseded
          /\ pc[b] \in {"risk", "pace", "select", "export"}

\* C10: when every route nav_select hands to select_route is rejected by a
\* filter, or there is none, nav_select raises 'no route satisfies' and
\* leaves state.routes, state.risks, state.paces and state.selection as they
\* were.
C10_NoRouteLeavesState ==
    [][ \A p \in SelectParams, route_ids \in IdLists :
           LET ids == Referenced(route_ids)
               a == [constraints |-> p[1], now |-> p[2], paces |-> paces]
           IN  (/\ Returns("nav_select")
                /\ Range(ids) \subseteq (DOMAIN routes \cap DOMAIN risks \cap DOMAIN paces)
                /\ \A i \in DOMAIN ids : ~ObeysFilters(routes[ids[i]], a))
               => \/ /\ last'.status = "no_route"
                     /\ UNCHANGED <<routes, risks, paces, selection>>
                  \/ ~nav_select(route_ids, p[1], p[2])
      ]_vars

\* nav_select raised 'no route satisfies' over stored routes while an
\* earlier selection stood
C10_Witness ==
    /\ last.op = "nav_select"
    /\ last.status = "no_route"
    /\ selection # None
    /\ Cardinality(DOMAIN routes) = 2
    /\ Superseded # {}

\* estimated_cost * (1 + aggregate risk), rounded to 3 decimals, as the
\* claim states it
StatedComposite(route, risk) ==
    RoundDiv(route.estimated_cost * (AggregateOne + aggregate(risk)), AggregateOne)

\* C11: for every route of state.routes, composite is non-null exactly when
\* the route's id is a key of state.risks, and then it is estimated_cost *
\* (1 + aggregate risk) rounded to 3 decimals; nav_route, nav_pace_estimator,
\* nav_select and nav_export never set or change a composite.
C11_CompositeFollowsRisk ==
    [][ /\ \A id \in DOMAIN routes' :
              (routes'[id].composite # None) <=> (id \in DOMAIN risks')
        /\ \A id \in DOMAIN routes' \cap DOMAIN risks' :
              routes'[id].composite = Some(StatedComposite(routes'[id], risks'[id]))
        /\ ~Returns("nav_risk_eval") =>
              \A id \in DOMAIN routes' :
                 routes'[id].composite =
                    IF id \in DOMAIN routes THEN routes[id].composite ELSE None
      ]_vars

\* Of two stored routes one has its risk and a composite above its cost, the
\* other has neither, and nav_export was the latest call
C11_Witness ==
    /\ last.op = "nav_export"
    /\ \E a, b \in DOMAIN routes :
          /\ a \in DOMAIN risks
          /\ routes[a].composite # None
          /\ routes[a].composite[1] > routes[a].estimated_cost
          /\ b \notin DOMAIN risks
          /\ routes[b].composite = None

----------------------------------------------------------------------------
(* SpecRisk: evaluate_routes (risk.py) applied to one route whose steps are  *)
(* drawn from a bounded set: slopes of 0 and more, exposures below 0 and     *)
(* above 1, dry and wet terrain, segment and checkpoint steps.               *)

StepSamples ==
    { Step(0, -200, "forest", "segment"),
      Step(10, 500, "wetland", "segment"),
      Step(30, 1500, "water", "segment"),
      Step(12, 300, "trail", "segment"),
      Step(30, 1500, "water", "checkpoint"),
      Step(5, 0, "open", "checkpoint") }

RiskInit ==
    /\ EngineInit
    /\ CallersIdle /\ ToolsIdle
    /\ SelectIdle
    /\ \E steps \in UNION {[1..n -> StepSamples] : n \in 0..MaxSteps} :
          call = Some([fn |-> "evaluate_routes", steps |-> steps])
    /\ reply = None

\* evaluate_routes([route]) and the aggregate property of the RouteRisk
EvaluateRisk ==
    /\ call # None
    /\ call[1].fn = "evaluate_routes"
    /\ reply = None
    /\ LET risk == evaluate_routes(<<[id |-> 1, steps |-> call[1].steps]>>)[1]
       IN  reply' = Some([risk |-> risk, aggregate |-> aggregate(risk)])
    /\ UNCHANGED <<call, engine_vars, caller_vars, select_vars, data_root, search>>

SpecRisk == RiskInit /\ [][EvaluateRisk]_vars

\* C14: each of slope_risk, exposure_risk and hydrology_risk that
\* evaluate_routes computes lies in [0,1], and so does the aggregate, for any
\* slopes >= 0, any exposures and any mix of water and wetland; a route with
\* no segment step gets three components of 0.
C14_RiskWithinUnitInterval ==
    (reply # None /\ call[1].fn = "evaluate_routes") =>
        LET risk == reply[1].risk
        IN  /\ risk.slope_risk \in 0..1000
            /\ risk.exposure_risk \in 0..1000
            /\ risk.hydrology_risk \in 0..1000
            /\ reply[1].aggregate \in 0..AggregateOne
            /\ (\A i \in DOMAIN call[1].steps : call[1].steps[i].step_type # "segment")
                  => /\ risk.slope_risk = 0
                     /\ risk.exposure_risk = 0
                     /\ risk.hydrology_risk = 0

\* Segment steps of mean exposure above 1, steep and across water, evaluated
\* to the largest risk
C14_Witness ==
    /\ reply # None
    /\ call[1].fn = "evaluate_routes"
    /\ Len(call[1].steps) = 2
    /\ \A i \in DOMAIN call[1].steps :
          call[1].steps[i].step_type = "segment" /\ call[1].steps[i].exposure > 1000
    /\ reply[1].risk.exposure_risk = 1000
    /\ reply[1].risk.hydrology_risk = 1000
    /\ reply[1].aggregate = AggregateOne

----------------------------------------------------------------------------
(* pathfinding.py: road_network_route.                                      *)
(*                                                                          *)
(* A coordinate is <<lat, lon>> with both parts in metres: the unit of lat  *)
(* is 1/111320 degree and the unit of lon 1/85000 degree, the two factors   *)
(* of _approx_distance.  A road of the GeoJSON input lists <<lon, lat>>.    *)
(* Distances are whole metres.                                              *)

\* The integer square root, by bisection
RECURSIVE SqrtSearch(_, _, _)
SqrtSearch(n, lo, hi) ==
    IF lo = hi THEN lo
    ELSE LET mid == (lo + hi + 1) \div 2
         IN  IF mid * mid <= n THEN SqrtSearch(n, mid, hi)
             ELSE SqrtSearch(n, lo, mid - 1)

Sqrt(n) == SqrtSearch(n, 0, Min(n, 46340))

\* _approx_distance, lines 176-181
_approx_distance(coord1, coord2) ==
    LET dlat == coord1[1] - coord2[1]
        dlon == coord1[2] - coord2[2]
    IN  Sqrt(dlat * dlat + dlon * dlon)

\* Python's order on tuples of two numbers
TupleLess(a, b) == a[1] < b[1] \/ (a[1] = b[1] /\ a[2] < b[2])

\* Lines 49-52: the consecutive pairs of one road; a road point (lon, lat)
\* becomes the node (lat, lon)
RoadSegments(coords) ==
    [i \in 1..(Len(coords) - 1) |->
        <<<<coords[i][2], coords[i][1]>>, <<coords[i + 1][2], coords[i + 1][1]>>>>]

\* Lines 48-49: the pairs of all roads, in the order the loops visit them
RECURSIVE AllSegments(_)
AllSegments(roads) ==
    IF roads = <<>> THEN <<>>
    ELSE RoadSegments(Head(roads)) \o AllSegments(Tail(roads))

\* Lines 56-57: all_nodes
all_nodes(roads) == UNION {{s[1], s[2]} : s \in Range(AllSegments(roads))}

\* Lines 54-55: graph[node], the (neighbor, distance) pairs in append order
RECURSIVE Adjacent(_, _)
Adjacent(segs, node) ==
    IF segs = <<>> THEN <<>>
    ELSE LET s == Head(segs)
             d == _approx_distance(s[1], s[2])
         IN  (IF s[1] = node THEN <<<<s[2], d>>>> ELSE <<>>)
             \o (IF s[2] = node THEN <<<<s[1], d>>>> ELSE <<>>)
             \o Adjacent(Tail(segs), node)

Graph(roads) == [node \in all_nodes(roads) |-> Adjacent(AllSegments(roads), node)]

\* find_connected_component, lines 63-74: the breadth-first search returns
\* the set of nodes reachable from node; the set is grown here a layer at a
\* time
RECURSIVE Expand(_, _)
Expand(graph, component) ==
    LET grown == component \cup
                 UNION {{nb[1] : nb \in Range(graph[current])} : current \in component}
    IN  IF grown = component THEN component ELSE Expand(graph, grown)

find_connected_component(graph, node) == Expand(graph, {node})

\* list(s) for a set s of nodes: the iteration order of a Python set follows
\* the hashes of its members; `order`, an enumeration of all nodes, is the
\* order the run happens to have, and a subset is listed in that order
ListOf(order, s) == SelectSeq(order, LAMBDA node : node \in s)

\* Lines 77-85: the sampling loop over the first 100 nodes; ends after the
\* sample, or once the checked nodes are at least 90% of all nodes
RECURSIVE SampleComponents(_, _, _, _, _)
SampleComponents(graph, nodes, i, components, checked) ==
    IF i > Min(100, Len(nodes)) THEN components
    ELSE IF nodes[i] \in checked
         THEN SampleComponents(graph, nodes, i + 1, components, checked)
         ELSE LET comp == find_connected_component(graph, nodes[i])
                  seen == checked \cup comp
              IN  IF 10 * Cardinality(seen) >= 9 * Len(nodes)
                  THEN Append(components, comp)
                  ELSE SampleComponents(graph, nodes, i + 1,
                                        Append(components, comp), seen)

Components(roads, order) ==
    SampleComponents(Graph(roads), ListOf(order, all_nodes(roads)), 1, <<>>, {})

\* Seeded fault for LargestOf: the first component examined is kept
FirstOf(components) == components[1]

\* Line 88: max(components, key=len), the first of the largest
LargestOf(components) ==
    components[CHOOSE i \in DOMAIN components :
                  \A j \in DOMAIN components :
                     /\ Cardinality(components[j]) <= Cardinality(components[i])
                     /\ j < i => Cardinality(components[j]) < Cardinality(components[i])]

\* Seeded fault for nodes_list: the nearest nodes are sought among all nodes
nodes_list_all(roads, order) == ListOf(order, all_nodes(roads))

\* Lines 87-93: list(largest_component), or list(all_nodes) when no
\* component was found
nodes_list(roads, order) ==
    LET components == Components(roads, order)
    IN  IF components # <<>> THEN ListOf(order, LargestOf(components))
        ELSE ListOf(order, all_nodes(roads))

\* Lines 97-98: min(nodes_list, key=distance to coord), the first of the
\* nearest
NearestNode(nodes, coord) ==
    nodes[CHOOSE i \in DOMAIN nodes :
             \A j \in DOMAIN nodes :
                /\ _approx_distance(nodes[i], coord) <= _approx_distance(nodes[j], coord)
                /\ j < i => _approx_distance(nodes[j], coord) > _approx_distance(nodes[i], coord)]

\* Lines 140-144: the path read back from came_from
RECURSIVE PathTo(_, _)
PathTo(came_from, current) ==
    IF current \in DOMAIN came_from
    THEN Append(PathTo(came_from, came_from[current]), current)
    ELSE <<current>>

\* Seeded fault for HeapTop: the greatest entry is popped
HeapLast(pq) ==
    CHOOSE top \in pq :
        \A e \in pq : e = top \/ e[1] < top[1]
                      \/ (e[1] = top[1] /\ TupleLess(e[2], top[2]))

\* heapq.heappop: the least (distance, node) entry
HeapTop(pq) ==
    CHOOSE top \in pq :
        \A e \in pq : e = top \/ e[1] > top[1]
                      \/ (e[1] = top[1] /\ TupleLess(top[2], e[2]))

\* Lines 139-147: the neighbours of current, relaxed in graph order
RECURSIVE Relax(_, _, _, _, _, _)
Relax(neighbors, i, current_dist, current, visited, st) ==
    IF i > Len(neighbors) THEN st
    ELSE LET neighbor == neighbors[i][1]
             new_dist == current_dist + neighbors[i][2]
         IN  IF neighbor \notin visited
                /\ (neighbor \notin DOMAIN st.distances \/ new_dist < st.distances[neighbor])
             THEN Relax(neighbors, i + 1, current_dist, current, visited,
                        [pq |-> st.pq \cup {<<new_dist, neighbor>>},
                         distances |-> Update(st.distances, (neighbor :> new_dist)),
                         came_from |-> Update(st.came_from, (neighbor :> current))])
             ELSE Relax(neighbors, i + 1, current_dist, current, visited, st)

\* Lines 120-151: Dijkstra's loop; None when the queue runs empty (the cap
\* of 100000 iterations is beyond the graphs here)
RECURSIVE Dijkstra(_, _, _, _)
Dijkstra(graph, goal_node, visited, st) ==
    IF st.pq = {} THEN None
    ELSE LET top == HeapTop(st.pq)
             current == top[2]
             popped == [st EXCEPT !.pq = st.pq \ {top}]
         IN  IF current \in visited THEN Dijkstra(graph, goal_node, visited, popped)
             ELSE IF current = goal_node THEN Some(PathTo(st.came_from, current))
             ELSE Dijkstra(graph, goal_node, visited \cup {current},
                           Relax(graph[current], 1, top[1], current,
                                 visited \cup {current}, popped))

\* road_network_route, lines 30-151.  The result is the path, None, or the
\* ValueError of min() on an empty node list; the snapped nodes, the
\* component the search was restricted to and the components the sampling
\* loop examined are kept beside it.
road_network_route(start, goal, roads, order) ==
    LET nodes == nodes_list(roads, order)
    IN  IF nodes = <<>>
        THEN [status |-> "ValueError", path |-> None, start_node |-> None,
              goal_node |-> None, component |-> {}, examined |-> {}]
        ELSE LET start_node == NearestNode(nodes, start)
                 goal_node == NearestNode(nodes, goal)
                 path == IF start_node = goal_node THEN Some(<<start_node>>)
                         ELSE Dijkstra(Graph(roads), goal_node, {},
                                       [pq |-> {<<0, start_node>>},
                                        distances |-> (start_node :> 0),
                                        came_from |-> <<>>])
             IN  [status |-> IF path = None THEN "none" ELSE "path",
                  path |-> path, start_node |-> Some(start_node),
                  goal_node |-> Some(goal_node), component |-> Range(nodes),
                  examined |-> Range(Components(roads, order))]

----------------------------------------------------------------------------
(* SpecRoads: road_network_route applied to bounded road networks, start    *)
(* and goal coordinates and node iteration orders.                          *)

\* fragmented network: MaxFragments two-node roads a kilometre apart
Fragment(i) == << <<0, 1000 * i>>, <<100, 1000 * i>> >>

\* A road of three nodes with legs of 300 m and 400 m, as (lon, lat) points
Bend == << <<0, 0>>, <<300, 0>>, <<300, 400>> >>

\* The road networks (the values of the roads dict, in insertion order):
\* one road; a road and a shortcut between its ends; two roads that do not
\* meet; a road beside many short roads that do not meet; a road of a single
\* point, which has no segment; a road that stays on one point beside a road
\* of two nodes; two roads of two legs each between the same ends, of 700 m
\* and of 524 m
RoadNetworks ==
    { <<Bend>>,
      <<Bend, << <<0, 0>>, <<300, 400>> >> >>,
      <<Bend, << <<0, 0>>, <<0, 100>>, <<300, 400>> >> >>,
      <<Bend, Fragment(2)>>,
      [i \in 1..(MaxFragments + 1) |-> IF i <= MaxFragments THEN Fragment(i) ELSE Bend],
      << << <<0, 0>> >> >>,
      << << <<0, 0>>, <<0, 0>> >>, Fragment(2) >> }

\* The nodes of a set in ascending tuple order
RECURSIVE Ascending(_)
Ascending(s) ==
    IF s = {} THEN <<>>
    ELSE LET least == CHOOSE a \in s : \A b \in s : a = b \/ TupleLess(a, b)
         IN  <<least>> \o Ascending(s \ {least})

\* The iteration orders a run may have: two of the many
NodeOrders(roads) ==
    LET ascending == Ascending(all_nodes(roads))
    IN  {ascending, [i \in DOMAIN ascending |-> ascending[Len(ascending) + 1 - i]]}

\* Start and goal coordinates <<lat, lon>>: on a node, near nodes, between
\* two roads, far from every road
RoadsInit ==
    /\ EngineInit /\ CallersIdle /\ ToolsIdle /\ SelectIdle
    /\ \E roads \in RoadNetworks :
         \E order \in NodeOrders(roads) :
           \E start, goal \in { <<0, 0>>, <<10, 290>>, <<390, 310>>,
                               <<1900, 50>>, <<5000, 5000>> } :
              call = Some([fn |-> "road_network_route", start |-> start,
                           goal |-> goal, roads |-> roads, order |-> order])
    /\ reply = None

RoadRoute ==
    /\ call # None
    /\ call[1].fn = "road_network_route"
    /\ reply = None
    /\ reply' = Some(road_network_route(call[1].start, call[1].goal,
                                        call[1].roads, call[1].order))
    /\ UNCHANGED <<call, engine_vars, caller_vars, select_vars, data_root, search>>

SpecRoads == RoadsInit /\ [][RoadRoute]_vars

----------------------------------------------------------------------------
(* Claims about road_network_route (SpecRoads) *)

\* The nodes joined to node by road segments, from the roads themselves
RECURSIVE JoinedTo(_, _)
JoinedTo(segs, s) ==
    LET more == s \cup {seg[2] : seg \in {e \in segs : e[1] \in s}}
                  \cup {seg[1] : seg \in {e \in segs : e[2] \in s}}
    IN  IF more = s THEN s ELSE JoinedTo(segs, more)

ConnectedComponents(roads) ==
    {JoinedTo(Range(AllSegments(roads)), {node}) : node \in all_nodes(roads)}

RoadReply == reply # None /\ call[1].fn = "road_network_route"

RoadSnapped == RoadReply /\ reply[1].status # "ValueError"

\* C19: the snapped start node and the snapped goal node of
\* road_network_route lie in one connected component of the road graph, each
\* is a node of that component nearest (planar distance) to start and to goal
\* respectively, and when the two are the same node the result is the path
\* of exactly that node.
C19_SnappedInOneComponent ==
    RoadSnapped =>
        LET start_node == reply[1].start_node[1]
            goal_node == reply[1].goal_node[1]
        IN  \E comp \in ConnectedComponents(call[1].roads) :
               /\ start_node \in comp
               /\ goal_node \in comp
               /\ \A node \in comp :
                     /\ _approx_distance(start_node, call[1].start)
                           <= _approx_distance(node, call[1].start)
                     /\ _approx_distance(goal_node, call[1].goal)
                           <= _approx_distance(node, call[1].goal)
               /\ start_node = goal_node => reply[1].path = Some(<<start_node>>)

\* Start and goal lie nearest a road outside the component; both snap to the
\* same node of the component and the path is that node alone
C19_Witness ==
    /\ RoadSnapped
    /\ call[1].start = call[1].goal
    /\ reply[1].start_node = reply[1].goal_node
    /\ reply[1].path = Some(<<reply[1].start_node[1]>>)
    /\ \E node \in all_nodes(call[1].roads) \ reply[1].component :
          _approx_distance(node, call[1].start)
             < _approx_distance(reply[1].start_node[1], call[1].start)

\* C20 as stated: the component road_network_route restricts to is a
\* connected component of maximum size.
C20_LargestOfAll ==
    RoadSnapped =>
        /\ reply[1].component \in ConnectedComponents(call[1].roads)
        /\ \A comp \in ConnectedComponents(call[1].roads) :
              Cardinality(comp) <= Cardinality(reply[1].component)

\* C20: the component road_network_route restricts to is a connected
\* component of the road graph, one of those the sampling loop examined and
\* of maximum size among them; the nodes of the components left unexamined
\* are at most a tenth of all nodes.
C20_LargestExamined ==
    RoadSnapped =>
        /\ reply[1].component \in ConnectedComponents(call[1].roads)
        /\ reply[1].component \in reply[1].examined
        /\ reply[1].examined \subseteq ConnectedComponents(call[1].roads)
        /\ \A comp \in reply[1].examined :
              Cardinality(comp) <= Cardinality(reply[1].component)
        /\ 10 * Cardinality(all_nodes(call[1].roads) \ UNION reply[1].examined)
              <= Cardinality(all_nodes(call[1].roads))

\* The sampling stopped at 90% with two-node components only, and a
\* three-node component was left unexamined
C20_Witness ==
    /\ RoadSnapped
    /\ Cardinality(reply[1].component) = 2
    /\ Cardinality(reply[1].examined) > 1
    /\ \E comp \in ConnectedComponents(call[1].roads) :
          Cardinality(comp) = 3 /\ comp \notin reply[1].examined

----------------------------------------------------------------------------
(* terrain.py and pathfinding.py: the grid search a_star_route.             *)
(*                                                                          *)
(* A grid cell is <<row, col>>, counted from 0 as in the code.  A DEM is    *)
(* [grid, cell_size_m, origin]: rows of elevations in metres, the cell size *)
(* in metres and the origin coordinate.  Landcover is [grid, classes]: rows *)
(* of class names and the class table with cost_factor and exposure in      *)
(* 1/1000.  Lengths on the grid (moves, g scores, the heuristic) are in     *)
(* decimetres, cost factors in 1/1000.  The obstacle polygons are given by  *)
(* the set of cells whose centroid they contain (shapely's contains() is    *)
(* not modelled).                                                           *)

Height(dem) == Len(dem.grid)
Width(dem) == IF dem.grid = <<>> THEN 0 ELSE Len(dem.grid[1])

Elevation(dem, row, col) == dem.grid[row + 1][col + 1]
Cover(landcover, row, col) == landcover.grid[row + 1][col + 1]

\* coordinate_to_grid, terrain.py 9-19
coordinate_to_grid(coord, dem) ==
    LET northing == coord[1] - dem.origin[1]
        easting == coord[2] - dem.origin[2]
    IN  <<RoundDiv(northing, dem.cell_size_m),
          RoundDiv(easting, dem.cell_size_m)>>

\* grid_to_coordinate, terrain.py 22-27
grid_to_coordinate(row, col, dem) ==
    <<dem.origin[1] + row * dem.cell_size_m, dem.origin[2] + col * dem.cell_size_m>>

\* in_bounds, terrain.py 30-31
in_bounds(row, col, dem) ==
    0 <= row /\ row < Height(dem) /\ 0 <= col /\ col < Width(dem)

\* cell_size * sqrt(dr^2 + dc^2), in decimetres
CellDistance(dem, dr, dc) ==
    Sqrt(dem.cell_size_m * dem.cell_size_m * 100 * (dr * dr + dc * dc))

\* tan((d + 0.5) degrees) in 1/1000, for d = 0 .. 89
TanTable ==
    << 9, 26, 44, 61, 79, 96, 114, 132, 149, 167, 185, 203, 222, 240, 259,
       277, 296, 315, 335, 354, 374, 394, 414, 435, 456, 477, 499, 521, 543,
       566, 589, 613, 637, 662, 687, 713, 740, 767, 795, 824, 854, 885, 916,
       949, 983, 1018, 1054, 1091, 1130, 1171, 1213, 1257, 1303, 1351, 1402,
       1455, 1511, 1570, 1632, 1698, 1767, 1842, 1921, 2006, 2097, 2194,
       2300, 2414, 2539, 2675, 2824, 2989, 3172, 3376, 3606, 3867, 4165,
       4511, 4915, 5396, 5976, 6691, 7596, 8777, 10385, 12706, 16350, 22904,
       38188, 114589 >>

\* math.degrees(math.atan(rise / run)) to the nearest degree: the number of
\* half-degree marks the ratio has passed, found by bisection
RECURSIVE AtanSearch(_, _, _, _)
AtanSearch(rise, run, lo, hi) ==
    IF lo = hi THEN lo
    ELSE LET mid == (lo + hi + 1) \div 2
         IN  IF rise * 1000 >= TanTable[mid] * run
             THEN AtanSearch(rise, run, mid, hi)
             ELSE AtanSearch(rise, run, lo, mid - 1)

\* slope_between, terrain.py 34-44, in degrees
slope_between(dem, r1, c1, r2, c2) ==
    LET delta_h == Elevation(dem, r2, c2) - Elevation(dem, r1, c1)
        dist == CellDistance(dem, r2 - r1, c2 - c1)
    IN  IF dist = 0 THEN 0 ELSE AtanSearch(Abs(delta_h) * 10, dist, 0, Len(TanTable))

\* local_slope, terrain.py 47-58
local_slope(dem, row, col) ==
    LET slopes == {slope_between(dem, row, col, row + dr, col + dc) :
                      <<dr, dc>> \in {d \in {-1, 0, 1} \X {-1, 0, 1} :
                                         /\ d # <<0, 0>>
                                         /\ in_bounds(row + d[1], col + d[2], dem)}}
    IN  IF slopes = {} THEN 0 ELSE CHOOSE s \in slopes : \A o \in slopes : o <= s

\* terrain_cost and exposure_score, terrain.py 61-72
terrain_cost(landcover, row, col) == landcover.classes[Cover(landcover, row, col)].cost_factor
exposure_score(landcover, row, col) == landcover.classes[Cover(landcover, row, col)].exposure

\* Seeded fault for cell_blocked: no cell counts as blocked
cell_never_blocked(blocked, row, col) == FALSE

\* cell_blocked, pathfinding.py 227-234
cell_blocked(blocked, row, col) == <<row, col>> \in blocked

\* _road_influence, pathfinding.py 184-199.  The road points are compared as
\* they are in the input, without the swap road_network_route makes.
_road_influence(roads, coord) ==
    IF roads = <<>> THEN 1000
    ELSE LET distances == UNION {{_approx_distance(coord, roads[i][j]) : j \in DOMAIN roads[i]} :
                                    i \in DOMAIN roads}
             best_distance == CHOOSE d \in distances : \A o \in distances : d <= o
         IN  IF best_distance < 100 THEN 700
             ELSE IF best_distance < 300 THEN 850
             ELSE IF best_distance < 500 THEN 950
             ELSE 1000

\* math.pow(road_factor, road_bias) for the three biases of the profiles
\* (road_bias in 1/10), to three decimals
RoadPower(road_factor, road_bias) ==
    CASE road_bias = 10 -> road_factor
      [] road_bias = 8 ->
            (CASE road_factor = 700 -> 752 [] road_factor = 850 -> 878
               [] road_factor = 950 -> 960 [] OTHER -> 1000)
      [] road_bias = 11 ->
            (CASE road_factor = 700 -> 675 [] road_factor = 850 -> 836
               [] road_factor = 950 -> 945 [] OTHER -> 1000)

\* terrain_multipliers.get(terrain_name, 1.0), in 1/1000
MultiplierGet(terrain_multipliers, terrain_name) ==
    IF terrain_name \in DOMAIN terrain_multipliers
    THEN terrain_multipliers[terrain_name] ELSE 1000

\* Lines 278-292: the product of the four factors of a move into (nr, nc),
\* in 1/1000.  Parameters p: slope_weight and road_bias in 1/10,
\* exposure_penalty in 1/100, terrain_multipliers in 1/1000.
MoveFactor(g, p, current, nr, nc) ==
    LET terrain_factor ==
            RoundDiv(terrain_cost(g.landcover, nr, nc)
                       * MultiplierGet(p.terrain_multipliers, Cover(g.landcover, nr, nc)), 1000)
        slope == slope_between(g.dem, current[1], current[2], nr, nc)
        slope_factor == 1000 + RoundDiv(slope * p.slope_weight * 10, 3)
        road_factor == RoadPower(_road_influence(g.roads, grid_to_coordinate(nr, nc, g.dem)),
                                 p.road_bias)
        exposure_factor == 1000 + RoundDiv(p.exposure_penalty * exposure_score(g.landcover, nr, nc), 100)
    IN  RoundDiv(RoundDiv(RoundDiv(terrain_factor * slope_factor, 1000) * road_factor, 1000)
                   * exposure_factor, 1000)

\* Lines 294-298: move_cost times the factors, in decimetres
MoveCost(g, p, current, nr, nc) ==
    RoundDiv(CellDistance(g.dem, nr - current[1], nc - current[2])
               * MoveFactor(g, p, current, nr, nc), 1000)

\* Seeded fault for heuristic: ten times the straight-line distance
heuristic_tenfold(a, b, dem) == 10 * CellDistance(dem, a[1] - b[1], a[2] - b[2])

\* heuristic, pathfinding.py 202-203
heuristic(a, b, dem) == CellDistance(dem, a[1] - b[1], a[2] - b[2])

\* Seeded fault for neighbors: the move along the row leaps over a cell
neighbors_leaping ==
    << <<-1, -1>>, <<-1, 0>>, <<-1, 1>>, <<0, -1>>, <<0, 2>>, <<1, -1>>, <<1, 0>>, <<1, 1>> >>

\* Lines 241-250: the eight moves, in the order the loop tries them
neighbors ==
    << <<-1, -1>>, <<-1, 0>>, <<-1, 1>>, <<0, -1>>, <<0, 1>>, <<1, -1>>, <<1, 0>>, <<1, 1>> >>

\* Lines 271-305: the moves out of current, in order; st holds open_set,
\* came_from and g_score (f_score is only written)
RECURSIVE Moves(_, _, _, _, _, _)
Moves(g, p, goal_idx, current, i, st) ==
    IF i > Len(neighbors) THEN st
    ELSE LET nr == current[1] + neighbors[i][1]
             nc == current[2] + neighbors[i][2]
         IN  IF ~in_bounds(nr, nc, g.dem) \/ cell_blocked(g.blocked, nr, nc)
             THEN Moves(g, p, goal_idx, current, i + 1, st)
             ELSE LET tentative_g == st.g_score[current] + MoveCost(g, p, current, nr, nc)
                      neighbor == <<nr, nc>>
                  IN  IF neighbor \notin DOMAIN st.g_score \/ tentative_g < st.g_score[neighbor]
                      THEN Moves(g, p, goal_idx, current, i + 1,
                                 [open_set |-> st.open_set \cup
                                        {<<tentative_g + heuristic(neighbor, goal_idx, g.dem),
                                           neighbor>>},
                                  came_from |-> Update(st.came_from, (neighbor :> current)),
                                  g_score |-> Update(st.g_score, (neighbor :> tentative_g))])
                      ELSE Moves(g, p, goal_idx, current, i + 1, st)

\* Lines 257-305: the search loop
RECURSIVE Search(_, _, _, _)
Search(g, p, goal_idx, st) ==
    IF st.open_set = {} THEN None
    ELSE LET top == HeapTop(st.open_set)
             current == top[2]
         IN  IF current = goal_idx THEN Some(PathTo(st.came_from, current))
             ELSE Search(g, p, goal_idx,
                         Moves(g, p, goal_idx, current, 1,
                               [st EXCEPT !.open_set = st.open_set \ {top}]))

\* Seeded fault for a_star_route: in place of the bounds test the start and
\* the goal cell are moved onto the grid
a_star_route_clamped(start, goal, g, p) ==
    LET start_idx == coordinate_to_grid(start, g.dem)
        goal_idx == coordinate_to_grid(goal, g.dem)
        clamped_start == <<Max(0, Min(start_idx[1], Height(g.dem) - 1)),
                           Max(0, Min(start_idx[2], Width(g.dem) - 1))>>
        clamped_goal == <<Max(0, Min(goal_idx[1], Height(g.dem) - 1)),
                          Max(0, Min(goal_idx[2], Width(g.dem) - 1))>>
    IN  Search(g, p, clamped_goal,
               [open_set |-> {<<0, clamped_start>>},
                came_from |-> <<>>,
                g_score |-> (clamped_start :> 0)])

\* a_star_route, pathfinding.py 206-305: None, or the path as a list of cells
a_star_route(start, goal, g, p) ==
    LET start_idx == coordinate_to_grid(start, g.dem)
        goal_idx == coordinate_to_grid(goal, g.dem)
    IN  IF ~in_bounds(start_idx[1], start_idx[2], g.dem)
           \/ ~in_bounds(goal_idx[1], goal_idx[2], g.dem)
        THEN None
        ELSE Search(g, p, goal_idx,
                    [open_set |-> {<<0, start_idx>>},
                     came_from |-> <<>>,
                     g_score |-> (start_idx :> 0)])

\* generate_route_candidates, lines 438-494: the three profiles, in order
profiles ==
    << [name |-> "balanced", slope_weight |-> 10,
        terrain_multipliers |-> ("trail" :> 750) @@ ("road" :> 800),
        exposure_penalty |-> 5, road_bias |-> 10,
        constraints |-> [prefer |-> <<"mixed">>, avoid |-> <<>>],
        cost_weights |-> [slope |-> 40, terrain |-> 35, exposure |-> 25]],
       [name |-> "trail_pref", slope_weight |-> 9,
        terrain_multipliers |-> ("trail" :> 600) @@ ("road" :> 850)
                                @@ ("forest" :> 1100) @@ ("open" :> 1200),
        exposure_penalty |-> 3, road_bias |-> 8,
        constraints |-> [prefer |-> <<"trail">>, avoid |-> <<>>],
        cost_weights |-> [slope |-> 35, terrain |-> 45, exposure |-> 20]],
       [name |-> "low_exposure", slope_weight |-> 12,
        terrain_multipliers |-> ("open" :> 1400) @@ ("trail" :> 850) @@ ("road" :> 800),
        exposure_penalty |-> 12, road_bias |-> 11,
        constraints |-> [prefer |-> <<"cover">>, avoid |-> <<"open">>],
        cost_weights |-> [slope |-> 45, terrain |-> 25, exposure |-> 30]] >>

\* a_star_route, lines 213-216: the default parameters
DefaultParams ==
    [name |-> "default", slope_weight |-> 10, terrain_multipliers |-> <<>>,
     exposure_penalty |-> 0, road_bias |-> 10]

----------------------------------------------------------------------------
(* SpecGrid: a_star_route applied to bounded grids.                         *)

\* Elevations: level ground ("flat"), or a ridge along the second column
Dem(relief) ==
    [grid |-> [r \in 1..GridSize |->
                 [c \in 1..GridSize |-> IF relief = "ridge" /\ c = 2 THEN 160 ELSE 100]],
     cell_size_m |-> 100, origin |-> <<0, 0>>]

\* Landcover with the class table of the landcover file: open ground
\* ("open"); forest around a wetland cell ("marsh"); open ground with a trail
\* along the first row ("trail")
Landcover(kind) ==
    [grid |-> [r \in 1..GridSize |->
                 [c \in 1..GridSize |->
                    CASE kind = "marsh" -> (IF r = 2 /\ c = 2 THEN "wetland" ELSE "forest")
                      [] kind = "trail" -> (IF r = 1 THEN "trail" ELSE "open")
                      [] OTHER -> "open"]],
     classes |-> ("open" :> [cost_factor |-> 1000, exposure |-> 600])
                 @@ ("forest" :> [cost_factor |-> 1300, exposure |-> 200])
                 @@ ("trail" :> [cost_factor |-> 800, exposure |-> 400])
                 @@ ("wetland" :> [cost_factor |-> 2500, exposure |-> 500])]

\* The cells inside obstacle polygons: none; the middle of the second
\* column; the top of the second column; the cell at the origin; the whole
\* second column
BlockedSets ==
    { {}, {<<1, 1>>}, {<<0, 1>>, <<1, 1>>}, {<<0, 0>>},
      {<<r, 1>> : r \in 0..(GridSize - 1)} }

\* The ground a search runs on; the last two have one road along the first
\* row, given as (lon, lat) points
Grounds ==
    {[dem |-> d, landcover |-> l, blocked |-> b, roads |-> <<>>] :
        d \in {Dem("flat"), Dem("ridge")}, l \in {Landcover("open"), Landcover("marsh"), Landcover("trail")}, b \in BlockedSets}
    \cup {[dem |-> Dem("flat"), landcover |-> Landcover("open"), blocked |-> b, roads |-> << << <<0, 0>>, <<200, 0>> >> >>] :
             b \in {{}, {<<1, 1>>}}}

\* Coordinates <<lat, lon>>: the origin, a point of the origin's cell, the
\* far corner, the end of the first row, and two points off the grid
Places ==
    [origin |-> <<0, 0>>,
     near_origin |-> <<40, -30>>,
     far_corner |-> <<100 * (GridSize - 1), 100 * (GridSize - 1)>>,
     row_end |-> <<0, 100 * (GridSize - 1)>>,
     beyond_grid |-> <<100 * GridSize, 0>>,
     before_grid |-> <<-100, 100>>]

SearchParams == {DefaultParams} \cup Range(profiles)

GridInit ==
    /\ EngineInit /\ CallersIdle /\ ToolsIdle /\ SelectIdle
    /\ \E g \in Grounds, p \in SearchParams :
         \E start \in {Places.origin, Places.far_corner, Places.beyond_grid} :
           \E goal \in {Places.near_origin, Places.far_corner, Places.row_end, Places.before_grid} :
              call = Some([fn |-> "a_star_route", start |-> start, goal |-> goal,
                           ground |-> g, params |-> p])
    /\ reply = None

AStarRoute ==
    /\ call # None
    /\ call[1].fn = "a_star_route"
    /\ reply = None
    /\ reply' = Some([path |-> a_star_route(call[1].start, call[1].goal,
                                            call[1].ground, call[1].params)])
    /\ UNCHANGED <<call, engine_vars, caller_vars, select_vars, data_root, search>>

SpecGrid == GridInit /\ [][AStarRoute]_vars

----------------------------------------------------------------------------
(* Claims about a_star_route (SpecGrid) *)

GridReply == reply # None /\ call[1].fn = "a_star_route"

PathFound == GridReply /\ reply[1].path # None

\* C16 as stated: no cell of a path a_star_route returns, the start cell and
\* the goal cell included, is a blocked cell.
C16_NoBlockedCellOnPath ==
    PathFound =>
        \A i \in DOMAIN reply[1].path[1] :
            ~cell_blocked(call[1].ground.blocked, reply[1].path[1][i][1],
                          reply[1].path[1][i][2])

\* The cells of the grid
Cells(dem) == {cell \in (0..(Height(dem) - 1)) \X (0..(Width(dem) - 1)) : TRUE}

Infinity == 100000000

\* The least total cost of the 8-connected paths from each cell to goal_idx
\* that enter only unblocked in-bounds cells, by relaxing every move as
\* often as there are cells.  One relaxation of one cell:
RelaxedCost(g, p, d, cell) ==
    LET via == {d[<<cell[1] + neighbors[i][1], cell[2] + neighbors[i][2]>>]
                   + MoveCost(g, p, cell, cell[1] + neighbors[i][1],
                              cell[2] + neighbors[i][2]) :
                i \in {j \in DOMAIN neighbors :
                         /\ in_bounds(cell[1] + neighbors[j][1],
                                      cell[2] + neighbors[j][2], g.dem)
                         /\ ~cell_blocked(g.blocked, cell[1] + neighbors[j][1],
                                          cell[2] + neighbors[j][2])
                         /\ d[<<cell[1] + neighbors[j][1],
                                cell[2] + neighbors[j][2]>>] < Infinity}}
         best == via \cup {d[cell]}
    IN  CHOOSE c \in best : \A o \in best : c <= o

RECURSIVE RelaxedCosts(_, _, _, _)
RelaxedCosts(g, p, d, cells) ==
    IF cells = {} THEN <<>>
    ELSE LET cell == CHOOSE c \in cells : TRUE
         IN  (cell :> RelaxedCost(g, p, d, cell)) @@ RelaxedCosts(g, p, d, cells \ {cell})

RECURSIVE LeastCost(_, _, _, _)
LeastCost(g, p, d, k) ==
    IF k = 0 THEN d ELSE LeastCost(g, p, RelaxedCosts(g, p, d, DOMAIN d), k - 1)

RECURSIVE GoalCosts(_, _)
GoalCosts(cells, goal_idx) ==
    IF cells = {} THEN <<>>
    ELSE LET cell == CHOOSE c \in cells : TRUE
         IN  (cell :> IF cell = goal_idx THEN 0 ELSE Infinity)
             @@ GoalCosts(cells \ {cell}, goal_idx)

CostToGoal(g, p, goal_idx) ==
    LeastCost(g, p, GoalCosts(Cells(g.dem), goal_idx), Cardinality(Cells(g.dem)))

\* The total weighted cost of a path
RECURSIVE PathCost(_, _, _)
PathCost(g, p, path) ==
    IF Len(path) < 2 THEN 0
    ELSE MoveCost(g, p, path[1], path[2][1], path[2][2]) + PathCost(g, p, Tail(path))

\* The product of the multipliers is at least 1 for every move
FactorsAtLeastOne(g, p) ==
    \A cell \in Cells(g.dem) : \A i \in DOMAIN neighbors :
        LET nr == cell[1] + neighbors[i][1]
            nc == cell[2] + neighbors[i][2]
        IN  (in_bounds(nr, nc, g.dem) /\ ~cell_blocked(g.blocked, nr, nc))
               => MoveFactor(g, p, cell, nr, nc) >= 1000

\* C17: when the product of the multipliers is at least 1 for every move,
\* the heuristic never exceeds the least cost to the goal, and the path
\* a_star_route returns runs from the start cell to the goal cell by moves
\* to adjacent unblocked cells at the least total weighted cost of all such
\* paths.
C17_LeastCostPath ==
    (PathFound /\ FactorsAtLeastOne(call[1].ground, call[1].params)) =>
        LET g == call[1].ground
            p == call[1].params
            path == reply[1].path[1]
            start_idx == coordinate_to_grid(call[1].start, g.dem)
            goal_idx == coordinate_to_grid(call[1].goal, g.dem)
            least == CostToGoal(g, p, goal_idx)
        IN  /\ \A cell \in Cells(g.dem) :
                  least[cell] < Infinity => heuristic(cell, goal_idx, g.dem) <= least[cell]
            /\ path[1] = start_idx
            /\ path[Len(path)] = goal_idx
            /\ \A i \in 2..Len(path) :
                  /\ in_bounds(path[i][1], path[i][2], g.dem)
                  /\ ~cell_blocked(g.blocked, path[i][1], path[i][2])
                  /\ Abs(path[i][1] - path[i - 1][1]) <= 1
                  /\ Abs(path[i][2] - path[i - 1][2]) <= 1
            /\ PathCost(g, p, path) = least[start_idx]

\* Across forest with a wetland cell in the middle of the diagonal, the
\* path found goes around the wetland
C17_Witness ==
    /\ PathFound
    /\ FactorsAtLeastOne(call[1].ground, call[1].params)
    /\ call[1].ground.blocked = {}
    /\ Cover(call[1].ground.landcover, 1, 1) = "wetland"
    /\ call[1].start = Places.origin
    /\ call[1].goal = Places.far_corner
    /\ Len(reply[1].path[1]) > GridSize
    /\ \A i \in DOMAIN reply[1].path[1] : reply[1].path[1][i] # <<1, 1>>

----------------------------------------------------------------------------
(* terrain.py and pathfinding.py: the candidates generate_route_candidates  *)
(* builds.  distance_m is kept in whole metres, as in the engine model.     *)

\* RouteStep with segment_id, coordinate, terrain cost and label beside the
\* fields the engine's operations read.  A label "CPn: reason" is the pair of
\* n and the reason.
PathStep(segment_id, coordinate, slope, exposure, terrain, cost, step_type, label) ==
    [slope |-> slope, exposure |-> exposure, terrain |-> terrain,
     step_type |-> step_type, coordinate |-> coordinate, cost |-> cost,
     segment_id |-> segment_id, label |-> label]

\* assemble_route_steps, terrain.py 79: checkpoint_interval_m
checkpoint_interval_m == 250

\* Seeded fault for should_checkpoint: the interval has to be exceeded
should_checkpoint_beyond(terrain, last_terrain, cumulative_m, last_checkpoint_m, segment_id) ==
    \/ terrain # last_terrain /\ segment_id > 1
    \/ cumulative_m - last_checkpoint_m > 10 * checkpoint_interval_m /\ segment_id > 1

\* assemble_route_steps, terrain.py 117-121: should_checkpoint; lengths in
\* decimetres
should_checkpoint(terrain, last_terrain, cumulative_m, last_checkpoint_m, segment_id) ==
    \/ terrain # last_terrain /\ segment_id > 1
    \/ cumulative_m - last_checkpoint_m >= 10 * checkpoint_interval_m /\ segment_id > 1

\* assemble_route_steps, terrain.py 92-144: the loop over the path; lengths
\* in decimetres
RECURSIVE AssembleFrom(_, _, _, _, _, _, _, _)
AssembleFrom(path, dem, landcover, segment_id, cumulative, last_checkpoint, last_terrain, checkpoint_counter) ==
    IF segment_id > Len(path) THEN <<>>
    ELSE LET row == path[segment_id][1]
             col == path[segment_id][2]
             cumulative_m ==
                 IF segment_id > 1
                 THEN cumulative + CellDistance(dem, row - path[segment_id - 1][1],
                                                col - path[segment_id - 1][2])
                 ELSE cumulative
             terrain == Cover(landcover, row, col)
             base_step == PathStep(segment_id, grid_to_coordinate(row, col, dem),
                                   local_slope(dem, row, col),
                                   exposure_score(landcover, row, col), terrain,
                                   terrain_cost(landcover, row, col), "segment", None)
             checkpoint == should_checkpoint(terrain, last_terrain, cumulative_m,
                                             last_checkpoint, segment_id)
             reason == IF terrain # last_terrain THEN <<"Terrain", last_terrain, terrain>>
                       ELSE <<"Distance", cumulative_m \div 10>>
         IN  <<base_step>>
             \o (IF checkpoint
                 THEN <<[base_step EXCEPT !.step_type = "checkpoint",
                                          !.label = Some(<<checkpoint_counter + 1, reason>>)]>>
                 ELSE <<>>)
             \o AssembleFrom(path, dem, landcover, segment_id + 1, cumulative_m,
                             IF checkpoint THEN cumulative_m ELSE last_checkpoint,
                             terrain,
                             IF checkpoint THEN checkpoint_counter + 1 ELSE checkpoint_counter)

assemble_route_steps(path, dem, landcover) ==
    IF path = <<>> THEN <<>>
    ELSE AssembleFrom(path, dem, landcover, 1, 0, 0,
                      Cover(landcover, path[1][1], path[1][2]), 0)

\* route_distance_and_elevation, terrain.py 149-167: distance in decimetres,
\* ascent and descent in metres
RECURSIVE route_distance_and_elevation(_, _)
route_distance_and_elevation(path, dem) ==
    IF Len(path) < 2 THEN [dist |-> 0, ascent |-> 0, descent |-> 0]
    ELSE LET rest == route_distance_and_elevation(Tail(path), dem)
             elev1 == Elevation(dem, path[1][1], path[1][2])
             elev2 == Elevation(dem, path[2][1], path[2][2])
         IN  [dist |-> CellDistance(dem, path[2][1] - path[1][1], path[2][2] - path[1][2])
                       + rest.dist,
              ascent |-> (IF elev2 > elev1 THEN elev2 - elev1 ELSE 0) + rest.ascent,
              descent |-> (IF elev2 > elev1 THEN 0 ELSE elev1 - elev2) + rest.descent]

\* Lines 516-537: terrain_distance, the metres entered per terrain, in the
\* order the terrains are first entered
RECURSIVE TerrainDistance(_, _, _, _)
TerrainDistance(path, dem, landcover, idx) ==
    IF idx > Len(path) THEN <<>>
    ELSE LET rest == TerrainDistance(path, dem, landcover, idx + 1)
             terrain_name == Cover(landcover, path[idx][1], path[idx][2])
             seg_dist == CellDistance(dem, path[idx][1] - path[idx - 1][1],
                                      path[idx][2] - path[idx - 1][2])
             later == SelectSeq(rest, LAMBDA e : e[1] = terrain_name)
         IN  <<<<terrain_name, seg_dist + (IF later = <<>> THEN 0 ELSE later[1][2])>>>>
             \o SelectSeq(rest, LAMBDA e : e[1] # terrain_name)

\* Line 539: coverage_km, each distance rounded to 3 decimals of a kilometre
CoverageKm(path, dem, landcover) ==
    LET terrain_distance == TerrainDistance(path, dem, landcover, 2)
    IN  [i \in DOMAIN terrain_distance |->
            <<terrain_distance[i][1], RoundDiv(terrain_distance[i][2], 10)>>]

\* Lines 496-514: estimated_cost, the weighted sum of the rounded averages
EstimatedCost(segment_steps, profile) ==
    LET n == Len(segment_steps)
        avg_slope == RoundDiv(1000 * SumSeq(Slopes(segment_steps)), n)
        avg_terrain ==
            RoundDiv(SumSeq([i \in DOMAIN segment_steps |->
                                segment_steps[i].cost
                                  * MultiplierGet(profile.terrain_multipliers,
                                                  segment_steps[i].terrain)]),
                     1000 * n)
        avg_exposure == RoundDiv(SumSeq(Exposures(segment_steps)), n)
    IN  RoundDiv(profile.cost_weights.slope * avg_slope
                   + profile.cost_weights.terrain * avg_terrain
                   + profile.cost_weights.exposure * avg_exposure, 100)

\* Python's s[:n]
SliceTo(s, n) ==
    IF n >= 0 THEN SubSeq(s, 1, Min(n, Len(s))) ELSE SubSeq(s, 1, Max(Len(s) + n, 0))

\* Lines 470-589: the candidates of the profiles from the idx-th on; a
\* profile without a path, or without a segment step, is passed over.  The
\* id the generator writes into the candidate (the last value of the loop
\* variable idx) is replaced by nav_route and is kept as `profile` instead.
RECURSIVE ProfileCandidates(_, _, _, _, _)
ProfileCandidates(start, goal, g, ps, idx) ==
    IF idx > Len(ps) THEN <<>>
    ELSE LET profile == ps[idx]
             found == a_star_route(start, goal, g, profile)
             rest == ProfileCandidates(start, goal, g, ps, idx + 1)
         IN  IF found = None THEN rest
             ELSE LET path == found[1]
                      steps == assemble_route_steps(path, g.dem, g.landcover)
                      segment_steps == SegmentSteps(steps)
                      measured == route_distance_and_elevation(path, g.dem)
                  IN  IF segment_steps = <<>> THEN rest
                      ELSE <<[steps |-> steps,
                              distance_m |-> RoundDiv(measured.dist, 10),
                              ascent_m |-> measured.ascent,
                              descent_m |-> measured.descent,
                              estimated_cost |-> EstimatedCost(segment_steps, profile),
                              coverage |-> CoverageKm(path, g.dem, g.landcover),
                              constraints_used |-> profile.constraints,
                              profile |-> profile.name]>> \o rest

\* generate_road_network_candidates, lines 347-362: one step per path node
RoadSteps(path) ==
    [i \in DOMAIN path |->
        PathStep(i - 1, path[i], 0, 300, "road", 1000,
                 IF i = 1 \/ i = Len(path) THEN "waypoint" ELSE "segment", None)]

\* Lines 333-336: total_distance, in metres
RECURSIVE TotalDistance(_)
TotalDistance(path) ==
    IF Len(path) < 2 THEN 0
    ELSE _approx_distance(path[1], path[2]) + TotalDistance(Tail(path))

\* Lines 364-387: the candidate of the road path
RoadCandidate(path) ==
    [steps |-> RoadSteps(path),
     distance_m |-> TotalDistance(path),
     ascent_m |-> 0,
     descent_m |-> 0,
     estimated_cost |-> TotalDistance(path),
     coverage |-> <<<<"road", TotalDistance(path)>>>>,
     constraints_used |-> [mode |-> "road", source |-> "osm"],
     profile |-> "road_network"]

\* Lines 391-414: the variants i = 2 .. min(max_candidates + 1, 4) - 1
RoadVariants(candidate, max_candidates) ==
    [k \in 1..Max(Min(max_candidates + 1, 4) - 2, 0) |->
        [candidate EXCEPT
            !.estimated_cost = RoundDiv(candidate.estimated_cost * (95 + 5 * (k + 1)), 100),
            !.constraints_used = [mode |-> "road", source |-> "osm", variant |-> k + 1]]]

\* generate_road_network_candidates, lines 308-416; the ValueError of
\* road_network_route passes through
generate_road_network_candidates(start, goal, roads, order, max_candidates) ==
    LET routed == road_network_route(start, goal, roads, order)
    IN  IF routed.status = "ValueError" THEN [status |-> "ValueError", candidates |-> <<>>]
        ELSE IF routed.path = None THEN [status |-> "ok", candidates |-> <<>>]
        ELSE [status |-> "ok",
              candidates |-> <<RoadCandidate(routed.path[1])>>
                             \o RoadVariants(RoadCandidate(routed.path[1]), max_candidates)]

\* Lines 432-434: road routing is used on placeholder terrain with roads
RoadMode(g) ==
    /\ Height(g.dem) <= 10
    /\ Width(g.dem) <= 10
    /\ Len(g.roads) > 0

\* generate_route_candidates, lines 419-589
generate_route_candidates(start, goal, g, order, max_candidates) ==
    IF RoadMode(g)
    THEN generate_road_network_candidates(start, goal, g.roads, order, max_candidates)
    ELSE [status |-> "ok",
          candidates |-> ProfileCandidates(start, goal, g, SliceTo(profiles, max_candidates), 1)]

----------------------------------------------------------------------------
(* SpecCandidates: the engine's nav_route with the candidates               *)
(* generate_route_candidates builds from the request, on the terrain and    *)
(* the roads the engine loaded; requests follow one another.                *)

\* What the engine loaded: open level ground; a ridge with forest, a
\* wetland cell and an obstacle on it; a trail with an obstacle on the
\* origin cell; level ground cut in two by obstacles; and placeholder
\* terrain with roads
LoadedData ==
    { [dem |-> Dem("flat"), landcover |-> Landcover("open"), blocked |-> {}, roads |-> <<>>],
      [dem |-> Dem("ridge"), landcover |-> Landcover("marsh"), blocked |-> {<<1, 1>>}, roads |-> <<>>],
      [dem |-> Dem("flat"), landcover |-> Landcover("trail"), blocked |-> {<<0, 0>>}, roads |-> <<>>],
      [dem |-> Dem("flat"), landcover |-> Landcover("open"), blocked |-> {<<r, 1>> : r \in 0..(GridSize - 1)},
       roads |-> <<>>],
      [dem |-> Dem("flat"), landcover |-> Landcover("open"), blocked |-> {}, roads |-> <<Bend>>],
      [dem |-> Dem("flat"), landcover |-> Landcover("open"), blocked |-> {},
       roads |-> <<Bend, Fragment(2)>>],
      [dem |-> Dem("flat"), landcover |-> Landcover("open"), blocked |-> {},
       roads |-> << << <<0, 0>> >> >>] }

\* The arguments of the nav_route tool
Requests ==
    [start : {Places.origin, Places.beyond_grid},
     goal : {Places.near_origin, Places.far_corner, Places.before_grid},
     max_candidates : {-1, 0, 1, 4}]

CandidatesInit ==
    /\ EngineInit /\ CallersIdle /\ ToolsIdle /\ SelectIdle
    /\ \E g \in LoadedData :
         \E order \in NodeOrders(g.roads) :
           \E request \in Requests :
              call = Some([fn |-> "nav_route", start |-> request.start,
                           goal |-> request.goal,
                           max_candidates |-> request.max_candidates, ground |-> g,
                           order |-> order])
    /\ reply = None

\* nav_route, server.py 121-162, with the candidates of the generator; an
\* exception of the generator leaves the state as it is
NavRouteRequest ==
    /\ call # None
    /\ call[1].fn = "nav_route"
    /\ reply = None
    /\ LET made == generate_route_candidates(call[1].start, call[1].goal, call[1].ground,
                                             call[1].order, call[1].max_candidates)
       IN  /\ reply' = Some(made)
           /\ IF made.status = "ValueError"
              THEN /\ last' = Outcome("nav_route", "ValueError", None)
                   /\ UNCHANGED <<routes, risks, paces, selection, route_counter,
                                  assigned, generation, since>>
              ELSE nav_route(made.candidates)
    /\ UNCHANGED <<call, caller_vars, select_vars, data_root, search>>

\* The client sends another request to the same engine
NextRequest ==
    /\ call # None
    /\ call[1].fn = "nav_route"
    /\ reply # None
    /\ \E request \in Requests :
          call' = Some([call[1] EXCEPT !.start = request.start, !.goal = request.goal,
                                       !.max_candidates = request.max_candidates])
    /\ reply' = None
    /\ UNCHANGED <<engine_vars, caller_vars, select_vars, data_root, search>>

CandidatesNext ==
    \/ NavRouteRequest
    \/ NextRequest

SpecCandidates == CandidatesInit /\ [][CandidatesNext]_vars

----------------------------------------------------------------------------
(* Claims about the generated candidates (SpecCandidates) *)

NavReply == reply # None /\ call[1].fn = "nav_route"

Generated == NavReply /\ reply[1].status = "ok"

\* C12 as stated: for every candidate generate_route_candidates builds, in
\* grid mode or road mode, the first step's coordinate lies within one grid
\* cell of the requested start, the last step's within one grid cell of the
\* requested end, and distance_m is at least the planar distance between
\* start and end (a metre per step is allowed for rounding).
C12_CandidatesSpanStartToEnd ==
    Generated =>
        \A i \in DOMAIN reply[1].candidates :
            LET candidate == reply[1].candidates[i]
                cell == call[1].ground.dem.cell_size_m
            IN  /\ _approx_distance(candidate.steps[1].coordinate, call[1].start) <= cell
                /\ _approx_distance(candidate.steps[Len(candidate.steps)].coordinate,
                                    call[1].goal) <= cell
                /\ candidate.distance_m + Len(candidate.steps)
                      >= _approx_distance(call[1].start, call[1].goal)

\* C13 as stated: for every route the engine stores, every mode and every
\* load, the pace estimate has travel_time_minutes above 0 and a speed of at
\* least 1.5 km/h, routes whose start and goal share a grid cell or a road
\* node included.
C13_TravelTimePositive ==
    NavReply =>
        \A id \in DOMAIN routes : \A pm \in PaceParams :
            /\ estimate_travel_time(routes[id], pm[1], pm[2]).travel_time_minutes > 0
            /\ naismith_adjusted_speed(routes[id], pm[1], pm[2]) >= 3600

StartOrGoalOutOfBounds ==
    LET dem == call[1].ground.dem
        start_idx == coordinate_to_grid(call[1].start, dem)
        goal_idx == coordinate_to_grid(call[1].goal, dem)
    IN  \/ ~in_bounds(start_idx[1], start_idx[2], dem)
        \/ ~in_bounds(goal_idx[1], goal_idx[2], dem)

\* C15: when the grid cell of the start or of the goal is out of bounds,
\* a_star_route returns no path for any parameters, and in grid mode
\* nav_route leaves routes, risks, paces, the selection and the counter as
\* they were and raises the 'no viable route' error.
C15_OutOfBoundsStoresNothing ==
    [][ (reply = None /\ reply' # None /\ call[1].fn = "nav_route"
            /\ ~RoadMode(call[1].ground) /\ StartOrGoalOutOfBounds) =>
          /\ \A p \in SearchParams :
                a_star_route(call[1].start, call[1].goal, call[1].ground, p) = None
          /\ reply'[1].candidates = <<>>
          /\ routes' = routes
          /\ risks' = risks
          /\ paces' = paces
          /\ selection' = selection
          /\ route_counter' = route_counter
          /\ last' = Outcome("nav_route", "no_viable_route", None)
      ]_vars

\* A request from beyond the grid failed after an earlier request had
\* stored routes, and the routes are still there
C15_Witness ==
    /\ NavReply
    /\ ~RoadMode(call[1].ground)
    /\ call[1].start = Places.beyond_grid
    /\ reply[1].candidates = <<>>
    /\ last = Outcome("nav_route", "no_viable_route", None)
    /\ DOMAIN routes # {}
    /\ route_counter > 0

\* The names in s occur in t in the same order
RECURSIVE IsSubsequence(_, _)
IsSubsequence(s, t) ==
    IF s = <<>> THEN TRUE
    ELSE IF t = <<>> THEN FALSE
    ELSE IF Head(s) = Head(t) THEN IsSubsequence(Tail(s), Tail(t))
    ELSE IsSubsequence(s, Tail(t))

\* C18 as stated: for every integer max_candidates the generator returns at
\* most max_candidates candidates and at most 3, and in grid mode the
\* profiles of the candidates returned are a subsequence of (balanced,
\* trail_pref, low_exposure).
C18_AtMostMaxCandidates ==
    Generated =>
        /\ Len(reply[1].candidates) <= call[1].max_candidates
        /\ Len(reply[1].candidates) <= 3
        /\ ~RoadMode(call[1].ground) =>
              IsSubsequence([i \in DOMAIN reply[1].candidates |-> reply[1].candidates[i].profile],
                            [i \in DOMAIN profiles |-> profiles[i].name])

----------------------------------------------------------------------------
(* Claims about the path road_network_route returns (SpecRoads) *)

\* The least total edge weight of the walks from start_node to each node of
\* the undirected road graph, by relaxing every segment as often as there
\* are nodes.  One relaxation of one node:
RoadRelaxed(segs, d, node) ==
    LET via == {d[seg[1]] + _approx_distance(seg[1], seg[2]) :
                   seg \in {e \in segs : e[2] = node /\ d[e[1]] < Infinity}}
               \cup {d[seg[2]] + _approx_distance(seg[1], seg[2]) :
                        seg \in {e \in segs : e[1] = node /\ d[e[2]] < Infinity}}
        best == via \cup {d[node]}
    IN  CHOOSE c \in best : \A o \in best : c <= o

RECURSIVE RoadRelaxedAll(_, _, _)
RoadRelaxedAll(segs, d, nodes) ==
    IF nodes = {} THEN <<>>
    ELSE LET node == CHOOSE n \in nodes : TRUE
         IN  (node :> RoadRelaxed(segs, d, node)) @@ RoadRelaxedAll(segs, d, nodes \ {node})

RECURSIVE RoadLeast(_, _, _)
RoadLeast(segs, d, k) ==
    IF k = 0 THEN d ELSE RoadLeast(segs, RoadRelaxedAll(segs, d, DOMAIN d), k - 1)

RECURSIVE RoadStartWeights(_, _)
RoadStartWeights(nodes, start_node) ==
    IF nodes = {} THEN <<>>
    ELSE LET node == CHOOSE n \in nodes : TRUE
         IN  (node :> IF node = start_node THEN 0 ELSE Infinity)
             @@ RoadStartWeights(nodes \ {node}, start_node)

WeightFrom(roads, start_node) ==
    RoadLeast(Range(AllSegments(roads)),
              RoadStartWeights(all_nodes(roads), start_node),
              Cardinality(all_nodes(roads)))

\* The total edge weight of a node sequence
RECURSIVE PathWeight(_)
PathWeight(path) ==
    IF Len(path) < 2 THEN 0
    ELSE _approx_distance(path[1], path[2]) + PathWeight(Tail(path))

\* C21: when the snapped start and goal nodes differ, road_network_route
\* never returns 'no path'; the node sequence it returns begins at the
\* snapped start, ends at the snapped goal, has every consecutive pair
\* joined by a road segment (in either direction), and has the least total
\* edge weight of all such sequences in the undirected road graph.
C21_ShortestRoadPath ==
    (RoadSnapped /\ reply[1].start_node # reply[1].goal_node) =>
        /\ reply[1].status = "path"
        /\ LET path == reply[1].path[1]
               segs == Range(AllSegments(call[1].roads))
           IN  /\ path[1] = reply[1].start_node[1]
               /\ path[Len(path)] = reply[1].goal_node[1]
               /\ \A i \in 1..(Len(path) - 1) :
                     <<path[i], path[i + 1]>> \in segs \/ <<path[i + 1], path[i]>> \in segs
               /\ PathWeight(path)
                     = WeightFrom(call[1].roads, reply[1].start_node[1])[reply[1].goal_node[1]]

\* Between the ends of two roads of two legs each, the path takes the
\* shorter road, whose first leg is not the first neighbour in the graph
C21_Witness ==
    /\ RoadSnapped
    /\ Len(call[1].roads) = 2
    /\ reply[1].start_node = Some(<<0, 0>>)
    /\ reply[1].goal_node = Some(<<400, 300>>)
    /\ reply[1].path = Some(<< <<0, 0>>, <<100, 0>>, <<400, 300>> >>)
    /\ PathWeight(reply[1].path[1]) = 524

----------------------------------------------------------------------------
(* SpecSteps: assemble_route_steps applied to the walks of up to            *)
(* MaxPathCells cells over bounded grounds; a walk grows by one move to an  *)
(* adjacent cell at a time.                                                 *)

\* The grounds of the walks: cells of 100 m and of 125 m, open ground and
\* forest around a wetland cell
StepsInit ==
    /\ EngineInit /\ CallersIdle /\ ToolsIdle /\ SelectIdle
    /\ \E g \in [dem : {Dem("flat"), [Dem("ridge") EXCEPT !.cell_size_m = 125]},
              landcover : {Landcover("open"), Landcover("marsh")}] :
         \E path \in {<<>>, << <<0, 0>> >>, << <<1, 1>> >>} :
            call = Some([fn |-> "assemble_route_steps", path |-> path,
                         dem |-> g.dem, landcover |-> g.landcover])
    /\ reply = None

AssembleRouteSteps ==
    /\ call # None
    /\ call[1].fn = "assemble_route_steps"
    /\ reply = None
    /\ reply' = Some(assemble_route_steps(call[1].path, call[1].dem, call[1].landcover))
    /\ UNCHANGED <<call, engine_vars, caller_vars, select_vars, data_root, search>>

\* The next path is the last one with one more move
LongerPath ==
    /\ call # None
    /\ call[1].fn = "assemble_route_steps"
    /\ reply # None
    /\ call[1].path # <<>>
    /\ Len(call[1].path) < MaxPathCells
    /\ \E i \in DOMAIN neighbors :
          LET last_cell == call[1].path[Len(call[1].path)]
              row == last_cell[1] + neighbors[i][1]
              col == last_cell[2] + neighbors[i][2]
          IN  /\ in_bounds(row, col, call[1].dem)
              /\ call' = Some([call[1] EXCEPT !.path = Append(@, <<row, col>>)])
    /\ reply' = None
    /\ UNCHANGED <<engine_vars, caller_vars, select_vars, data_root, search>>

StepsNext == AssembleRouteSteps \/ LongerPath

SpecSteps == StepsInit /\ [][StepsNext]_vars

----------------------------------------------------------------------------
(* Claims about assemble_route_steps (SpecSteps) *)

StepsReply == reply # None /\ call[1].fn = "assemble_route_steps"

\* The length of the path up to its i-th cell, in decimetres
RECURSIVE CumulativeTo(_, _, _)
CumulativeTo(path, dem, i) ==
    IF i <= 1 THEN 0
    ELSE CumulativeTo(path, dem, i - 1)
         + CellDistance(dem, path[i][1] - path[i - 1][1], path[i][2] - path[i - 1][2])

\* The last cell before the i-th that has a checkpoint, or the first cell
LastCheckpoint(marked, i) ==
    LET before == {j \in marked : j < i} \cup {1}
    IN  CHOOSE j \in before : \A k \in before : k <= j

\* C22: assemble_route_steps emits one segment step per path cell in path
\* order and no steps other than segment and checkpoint steps; a checkpoint
\* step comes right after the segment step of its cell, and a cell has one
\* exactly when it is not the first cell and its terrain class differs from
\* the previous cell's or the distance since the last checkpoint (or the
\* start) is at least 250 m; the checkpoints are numbered 1, 2, ... in path
\* order; the distance between consecutive checkpoints is below 250 m plus
\* the length of the move into the later one.
C22_SegmentsAndCheckpoints ==
    StepsReply =>
        LET path == call[1].path
            dem == call[1].dem
            steps == reply[1]
            segments == SelectSeq(steps, LAMBDA st : st.step_type = "segment")
            checkpoints == SelectSeq(steps, LAMBDA st : st.step_type = "checkpoint")
            marked == {checkpoints[k].segment_id : k \in DOMAIN checkpoints}
        IN  /\ Len(segments) = Len(path)
            /\ Len(segments) + Len(checkpoints) = Len(steps)
            /\ Cardinality(marked) = Len(checkpoints)
            /\ \A i \in DOMAIN path :
                  /\ segments[i].segment_id = i
                  /\ segments[i].coordinate = grid_to_coordinate(path[i][1], path[i][2], dem)
                  /\ segments[i].terrain = Cover(call[1].landcover, path[i][1], path[i][2])
                  /\ segments[i].label = None
                  /\ i \in marked <=>
                        /\ i > 1
                        /\ \/ Cover(call[1].landcover, path[i][1], path[i][2])
                                 # Cover(call[1].landcover, path[i - 1][1], path[i - 1][2])
                           \/ CumulativeTo(path, dem, i)
                                 - CumulativeTo(path, dem, LastCheckpoint(marked, i)) >= 2500
            /\ \A k \in DOMAIN steps :
                  steps[k].step_type = "checkpoint" =>
                     /\ k > 1
                     /\ steps[k - 1].step_type = "segment"
                     /\ steps[k - 1].segment_id = steps[k].segment_id
            /\ \A k \in DOMAIN checkpoints :
                  /\ checkpoints[k].label # None
                  /\ checkpoints[k].label[1][1] = k
            /\ \A k \in 2..Len(checkpoints) :
                  LET i == checkpoints[k].segment_id
                      j == checkpoints[k - 1].segment_id
                  IN  CumulativeTo(path, dem, i) - CumulativeTo(path, dem, j)
                         < 2500 + CellDistance(dem, path[i][1] - path[i - 1][1],
                                               path[i][2] - path[i - 1][2])

\* Five cells of 125 m by straight moves over open ground: checkpoints CP1
\* at exactly 250 m and CP2 at 500 m
C22_Witness ==
    /\ StepsReply
    /\ call[1].dem.cell_size_m = 125
    /\ Len(call[1].path) = 5
    /\ Len(reply[1]) = 7
    /\ reply[1][4].label = Some(<<1, <<"Distance", 250>>>>)
    /\ reply[1][7].label = Some(<<2, <<"Distance", 500>>>>)

----------------------------------------------------------------------------
(* exporter.py: the brief export_brief writes for a selection result, and   *)
(* SpecBrief: export_brief applied to selected routes of up to              *)
(* MaxBriefSegments segment steps.                                          *)

\* export_brief, lines 66-102: the route the brief is about, the entries of
\* its 'Key Checkpoints' section (label, coordinate, terrain) and the caveat
export_brief(result) ==
    LET route == result.selected_route
        segment_steps == SelectSeq(route.steps, LAMBDA step : step.step_type = "segment")
        stride == IF segment_steps # <<>> THEN Max(1, Len(segment_steps) \div 6) ELSE 1
        \* segment_steps[::stride]
        sampled == [k \in 1..((Len(segment_steps) + stride - 1) \div stride) |->
                       segment_steps[(k - 1) * stride + 1]]
    IN  [route_id |-> route.id,
         checkpoints |-> [idx \in DOMAIN sampled |->
                            [label |-> IF sampled[idx].label # None
                                       THEN sampled[idx].label[1]
                                       ELSE <<"CP", idx>>,
                             coordinate |-> sampled[idx].coordinate,
                             terrain |-> sampled[idx].terrain]],
         caveats |-> result.rationale]

\* The steps of a selected route: n segment steps, a checkpoint step after
\* every `every`-th of them (none when every = 0), the odd segment steps
\* labelled when `labelled`
RECURSIVE BriefSteps(_, _, _)
BriefSteps(n, every, labelled) ==
    IF n = 0 THEN <<>>
    ELSE BriefSteps(n - 1, every, labelled)
         \o <<PathStep(n, <<100 * n, 0>>, 0, 300, "open", 1000, "segment",
                       IF labelled /\ n % 2 = 1 THEN Some(<<"Gate", n>>) ELSE None)>>
         \o (IF every > 0 /\ n % every = 0
             THEN <<PathStep(n, <<100 * n, 0>>, 0, 300, "open", 1000, "checkpoint",
                             Some(<<n \div every, <<"Distance", 100 * n>>>>))>>
             ELSE <<>>)

BriefInit ==
    /\ EngineInit /\ CallersIdle /\ ToolsIdle /\ SelectIdle
    /\ \E n \in 0..MaxBriefSegments, every \in {0, 2, 3}, labelled \in BOOLEAN :
          call = Some([fn |-> "export_brief",
                       result |-> [selected_route |->
                                      [id |-> "route-1",
                                       steps |-> BriefSteps(n, every, labelled)],
                                   rationale |-> "lowest composite score"]])
    /\ reply = None

ExportBrief ==
    /\ call # None
    /\ call[1].fn = "export_brief"
    /\ reply = None
    /\ reply' = Some(export_brief(call[1].result))
    /\ UNCHANGED <<call, engine_vars, caller_vars, select_vars, data_root, search>>

SpecBrief == BriefInit /\ [][ExportBrief]_vars

----------------------------------------------------------------------------
(* Claims about export_brief (SpecBrief) *)

\* C23 as stated: for a selected route with any number of segment steps,
\* the 'Key Checkpoints' section of the brief lists at most six entries.
C23_AtMostSixCheckpoints ==
    (reply # None /\ call[1].fn = "export_brief") =>
        Len(reply[1].checkpoints) <= 6

----------------------------------------------------------------------------
(* local_terrain.py: LocalTerrainTool.  data_root maps the name of each     *)
(* bundle directory under the data root to the set of files in it.  An      *)
(* archive is its existence, its format ("zip", "tar", "osm" for an OSM     *)
(* PBF file, "other"), the members an extraction writes and whether the     *)
(* extraction or conversion raises.                                         *)

\* Lines 34-37 and 89-92: the four files of a bundle
RequiredFiles == {"dem.json", "landcover.json", "roads.geojson", "obstacles.geojson"}

\* LocalTerrainTool.load, lines 29-49, on the directories d
load(d, terrain_id) ==
    IF terrain_id \notin DOMAIN d THEN "FileNotFoundError"
    ELSE IF ~(RequiredFiles \subseteq d[terrain_id]) THEN "FileNotFoundError"
    ELSE "ok"

\* shutil.rmtree(target_dir)
Rmtree(d, name) == [n \in DOMAIN d \ {name} |-> d[n]]

\* LocalTerrainTool.register, lines 51-110, on the directories d: the outcome
\* and the directories it leaves
register(d, name, archive) ==
    LET \* lines 56-57: mkdir(parents=True, exist_ok=True)
        made == IF name \in DOMAIN d THEN d ELSE Update(d, (name :> {}))
    IN  \* lines 61-62
        IF ~archive.exists THEN [status |-> "FileNotFoundError", root |-> made]
        \* lines 64-86: an unsupported format and a failed extraction or
        \* conversion end in the same handler
        ELSE IF archive.format = "other" \/ archive.raises
        THEN [status |-> "RuntimeError", root |-> Rmtree(made, name)]
        ELSE LET \* lines 66-78 and 131-153: the members join what the
                 \* directory held
                 files == made[name] \cup (IF archive.format = "osm" THEN RequiredFiles
                                           ELSE archive.members)
             IN  \* lines 88-102
                 IF ~(RequiredFiles \subseteq files)
                 THEN [status |-> "ValueError", root |-> Rmtree(made, name)]
                 ELSE [status |-> "ok", root |-> Update(made, (name :> files))]

----------------------------------------------------------------------------
(* SpecTerrain: register and load called in any order on two bundle names.  *)

BundleNames == {"alpha", "bravo"}

\* The archives: none at the path; complete; complete with one more file;
\* two halves; complete but failing to extract; an OSM PBF file that
\* converts and one that does not; an unsupported format
Archives ==
    LET Archive(exists, format, members, raises) ==
            [exists |-> exists, format |-> format, members |-> members, raises |-> raises]
    IN  { Archive(FALSE, "zip", RequiredFiles, FALSE),
          Archive(TRUE, "zip", RequiredFiles, FALSE),
          Archive(TRUE, "tar", RequiredFiles \cup {"README.md"}, FALSE),
          Archive(TRUE, "zip", {"dem.json", "landcover.json"}, FALSE),
          Archive(TRUE, "tar", {"roads.geojson", "obstacles.geojson"}, FALSE),
          Archive(TRUE, "tar", RequiredFiles, TRUE),
          Archive(TRUE, "osm", {}, FALSE),
          Archive(TRUE, "osm", {}, TRUE),
          Archive(TRUE, "other", RequiredFiles, FALSE) }

Register ==
    \E name \in BundleNames, archive \in Archives :
        LET result == register(data_root, name, archive)
        IN  /\ data_root' = result.root
            /\ call' = Some([fn |-> "register", name |-> name, archive |-> archive])
            /\ reply' = Some(result.status)
            /\ UNCHANGED <<engine_vars, caller_vars, select_vars, search>>

Load ==
    \E terrain_id \in BundleNames :
        /\ call' = Some([fn |-> "load", name |-> terrain_id])
        /\ reply' = Some(load(data_root, terrain_id))
        /\ UNCHANGED <<data_root, search, engine_vars, caller_vars, select_vars>>

TerrainNext == Register \/ Load

\* No directory under the data root at first
SpecTerrain == Init /\ [][TerrainNext]_vars

----------------------------------------------------------------------------
(* Claims about LocalTerrainTool (SpecTerrain) *)

Registered == call # None /\ call[1].fn = "register"

\* C24 as stated: after a register that failed for name N (archive missing,
\* unsupported extension, extraction error, required file absent) no
\* directory for N remains under the data root, and after one that
\* succeeded the directory holds the four required files and load(N)
\* succeeds.
C24_FailedRegisterLeavesNoDirectory ==
    Registered =>
        IF reply[1] = "ok"
        THEN /\ call[1].name \in DOMAIN data_root
             /\ RequiredFiles \subseteq data_root[call[1].name]
             /\ load(data_root, call[1].name) = "ok"
        ELSE call[1].name \notin DOMAIN data_root

\* C30 as stated: a failed register for name N leaves load(N) succeeding if
\* it succeeded before the call.
C30_FailedRegisterKeepsBundle ==
    [][(Registered' /\ reply'[1] # "ok"
          /\ load(data_root, call'[1].name) = "ok")
         => load(data_root', call'[1].name) = "ok"]_vars

----------------------------------------------------------------------------
(* Further claims about the engine (Spec) *)

\* C25 as stated: a nav_pace_estimator call that fails on an unknown id
\* leaves state.paces as it was, wherever the unknown id stands in the list.
C25_FailedPaceRecordsNothing ==
    [][(Returns("nav_pace_estimator") /\ last'.status = "unknown_id")
         => paces' = paces]_vars

\* C26: a nav_route call that yields no candidate fails and leaves
\* state.routes, state.risks, state.paces, state.selection and the route
\* counter as they were; the ids of the latest successful generation are
\* still keys of state.routes.
C26_FailedRouteLeavesState ==
    [][(Returns("nav_route") /\ last'.status = "no_viable_route")
         => /\ UNCHANGED <<routes, risks, paces, selection, route_counter>>
            /\ generation \subseteq DOMAIN routes']_vars

\* nav_route found no candidate while two routes with their risks and paces
\* and a selection were stored
C26_Witness ==
    /\ last.op = "nav_route"
    /\ last.status = "no_viable_route"
    /\ selection # None
    /\ Cardinality(DOMAIN routes) = 2
    /\ generation = DOMAIN routes
    /\ DOMAIN risks = DOMAIN routes
    /\ DOMAIN paces = DOMAIN routes

----------------------------------------------------------------------------
(* Further claims about a_star_route (SpecGrid) *)

\* Every move into an unblocked in-bounds cell has a positive cost
MoveCostsPositive(g, p) ==
    \A cell \in Cells(g.dem) : \A i \in DOMAIN neighbors :
        LET nr == cell[1] + neighbors[i][1]
            nc == cell[2] + neighbors[i][2]
        IN  (in_bounds(nr, nc, g.dem) /\ ~cell_blocked(g.blocked, nr, nc))
               => MoveCost(g, p, cell, nr, nc) > 0

\* C27: every path a_star_route returns starts at the grid cell of the start
\* coordinate, ends at the grid cell of the goal coordinate, has consecutive
\* cells that differ, by at most 1 in row and in column, has every cell in
\* bounds and, when all move costs are positive, holds no cell twice.
C27_PathWellFormed ==
    PathFound =>
        LET g == call[1].ground
            path == reply[1].path[1]
        IN  /\ path # <<>>
            /\ path[1] = coordinate_to_grid(call[1].start, g.dem)
            /\ path[Len(path)] = coordinate_to_grid(call[1].goal, g.dem)
            /\ \A i \in DOMAIN path : in_bounds(path[i][1], path[i][2], g.dem)
            /\ \A i \in 1..(Len(path) - 1) :
                  /\ path[i] # path[i + 1]
                  /\ Abs(path[i][1] - path[i + 1][1]) <= 1
                  /\ Abs(path[i][2] - path[i + 1][2]) <= 1
            /\ MoveCostsPositive(g, call[1].params) =>
                  \A i, j \in DOMAIN path : i # j => path[i] # path[j]

\* Along the first row with its middle cell and the centre blocked: the
\* path goes around both
C27_Witness ==
    /\ PathFound
    /\ MoveCostsPositive(call[1].ground, call[1].params)
    /\ call[1].ground.blocked = {<<0, 1>>, <<1, 1>>}
    /\ call[1].start = Places.origin
    /\ call[1].goal = Places.row_end
    /\ Len(reply[1].path[1]) > GridSize

----------------------------------------------------------------------------
(* SpecSearch: a_star_route one loop iteration at a time, on the calls of   *)
(* SpecGrid.  `search` holds open_set, came_from and g_score between the    *)
(* iterations; the loop is the only thing that runs, so it is weakly fair.  *)

\* Lines 218-239: the bounds test and the first push
SearchBegin ==
    /\ call # None
    /\ call[1].fn = "a_star_route"
    /\ reply = None
    /\ search = None
    /\ LET dem == call[1].ground.dem
           start_idx == coordinate_to_grid(call[1].start, dem)
           goal_idx == coordinate_to_grid(call[1].goal, dem)
       IN  IF ~in_bounds(start_idx[1], start_idx[2], dem)
              \/ ~in_bounds(goal_idx[1], goal_idx[2], dem)
           THEN /\ reply' = Some([path |-> None])
                /\ UNCHANGED search
           ELSE /\ search' = Some([open_set |-> {<<0, start_idx>>},
                                   came_from |-> <<>>,
                                   g_score |-> (start_idx :> 0)])
                /\ UNCHANGED reply
    /\ UNCHANGED <<call, engine_vars, caller_vars, select_vars, data_root>>

\* Lines 257-305: one iteration of the while loop, or its end
SearchIterate ==
    /\ search # None
    /\ reply = None
    /\ LET g == call[1].ground
           goal_idx == coordinate_to_grid(call[1].goal, g.dem)
           st == search[1]
       IN  IF st.open_set = {}
           THEN /\ reply' = Some([path |-> None])
                /\ UNCHANGED search
           ELSE LET top == HeapTop(st.open_set)
                    current == top[2]
                IN  IF current = goal_idx
                    THEN /\ reply' = Some([path |-> Some(PathTo(st.came_from, current))])
                         /\ search' = Some([st EXCEPT !.open_set = st.open_set \ {top}])
                    ELSE /\ search' = Some(Moves(g, call[1].params, goal_idx, current, 1,
                                                 [st EXCEPT !.open_set = st.open_set \ {top}]))
                         /\ UNCHANGED reply
    /\ UNCHANGED <<call, engine_vars, caller_vars, select_vars, data_root>>

SearchNext == SearchBegin \/ SearchIterate

\* A call that has begun runs on: the interpreter takes the next step of the
\* loop whenever there is one.  That is weak fairness of SearchNext; a step
\* is possible exactly while no reply was given (SearchBegin needs search =
\* None, SearchIterate search # None, both reply = None, and each changes
\* search or reply), so the condition is written with reply = None in the
\* place of ENABLED <<SearchNext>>_vars.
SpecSearch ==
    /\ GridInit
    /\ [][SearchNext]_vars
    /\ ([]<>(reply # None) \/ []<><<SearchNext>>_vars)

----------------------------------------------------------------------------
(* Claims about the loop of a_star_route (SpecSearch) *)

\* The cells reached from the cells s by moves into in-bounds cells that
\* are not blocked
RECURSIVE ReachedFrom(_, _)
ReachedFrom(g, s) ==
    LET more == s \cup {cell \in Cells(g.dem) \ g.blocked :
                          \E from \in s, i \in DOMAIN neighbors :
                             cell = <<from[1] + neighbors[i][1], from[2] + neighbors[i][2]>>}
    IN  IF more = s THEN s ELSE ReachedFrom(g, more)

\* The search has ended as the claim says: out of bounds with no path, or
\* in bounds with a path exactly when moves into unblocked in-bounds cells
\* lead from the start cell to the goal cell
EndedAsReachable ==
    /\ reply # None
    /\ LET g == call[1].ground
           start_idx == coordinate_to_grid(call[1].start, g.dem)
           goal_idx == coordinate_to_grid(call[1].goal, g.dem)
       IN  IF in_bounds(start_idx[1], start_idx[2], g.dem)
              /\ in_bounds(goal_idx[1], goal_idx[2], g.dem)
           THEN reply[1].path # None <=> goal_idx \in ReachedFrom(g, {start_idx})
           ELSE reply[1].path = None

\* C28: on every grid (move costs are positive) the loop of a_star_route
\* ends, and with start and goal in bounds it ends with a path if and only
\* if the goal cell is reached from the start cell by 8-connected moves into
\* in-bounds cells that are not blocked.
C28_TerminatesWithPathIffReachable ==
    (reply = None) ~> EndedAsReachable

\* The search ran its queue empty behind a blocked column: every cell of the
\* start's side was given a g score and no path was returned
C28_Witness ==
    /\ reply # None
    /\ reply[1].path = None
    /\ search # None
    /\ search[1].open_set = {}
    /\ call[1].ground.blocked = {<<r, 1>> : r \in 0..(GridSize - 1)}
    /\ Cardinality(DOMAIN search[1].g_score) = GridSize

----------------------------------------------------------------------------
(* Claim about the reason codes of the alternates (SpecSelect) *)

\* C29: no alternate returned by select_route dominates the selected route.
\* For non-negative estimated costs: with prefer_low_risk no alternate
\* carries both lower_cost and lower_risk, without prefer_low_risk no
\* alternate carries lower_cost; and each alternate carries exactly one of
\* tie_risk, higher_risk, lower_risk.
C29_NoAlternateDominates ==
    (/\ Returned
     /\ \A i \in DOMAIN CurrentArgs.routes : CurrentArgs.routes[i].estimated_cost >= 0)
    => \A i \in DOMAIN sel_out[1].alternates :
          LET reason_codes == sel_out[1].alternates[i].reason_codes
          IN  /\ sel_out[1].constraints.prefer_low_risk
                 => ~({"lower_cost", "lower_risk"} \subseteq reason_codes)
              /\ ~sel_out[1].constraints.prefer_low_risk
                 => "lower_cost" \notin reason_codes
              /\ Cardinality(reason_codes
                             \cap {"tie_risk", "higher_risk", "lower_risk"}) = 1

\* select_route preferred low risk and returned, next to the selected route,
\* an alternate of lower estimated cost: its higher risk kept it from being
\* selected
C29_Witness ==
    /\ Returned
    /\ sel_out[1].constraints.prefer_low_risk
    /\ \E i \in DOMAIN sel_out[1].alternates :
          {"lower_cost", "higher_risk"} \subseteq sel_out[1].alternates[i].reason_codes

=============================================================================
